---- MODULE Spec2Model ----
(***************************************************************************)
(* Capability matcher: the SolverEngine of src/02.07.py (requirement       *)
(* parsing, semantic hierarchy, eligibility filter, transport modes,       *)
(* constraint model, solution extraction) as a state machine.              *)
(*                                                                         *)
(* Strings that the code inspects character by character (requirement      *)
(* strings) are sequences of one-character strings.  Numbers are decimal   *)
(* records [m, e] standing for m * 10^(-e), kept normalised, so that       *)
(* float() of "3.2" and of "3.20" are the same value.                      *)
(***************************************************************************)
EXTENDS Integers, Sequences, FiniteSets, TLC

VARIABLES
    \* ---- SolverEngine fields (src/02.07.py:11-21, 41) ----
    cap_list,            \* list of capability records
    semantic_hierarchy,  \* type -> list of direct parent types
    rec_data,            \* the recipe: list of steps, each with its _transport_mode tag
    step_ids,            \* list of step ids
    valid_mapping,       \* step id -> list of valid capability ids
    step_vars,           \* set of (step id, capability id) keys of the selection variables
    solver,              \* the Optimize object: asserted constraints and objective
    assigned_resources,  \* step id -> capability id of the last SAT solve
    \* ---- SMTGuiApp.run position and results (src/02.07.py:405-463) ----
    pc,                  \* "idle" | "loaded" | "built" | "solved" | "failed"
    invalid_mapping,     \* result of the last build_constraints
    last_res,            \* result of the last solve: "none" | "sat" | "unsat"
    last_model,          \* model of the last solve (set of true variables), or NoModel
    \* ---- get_all_ancestor_types locals (src/02.07.py:45-57) ----
    anc_root, ancestors, to_process, anc_pc, anc_adds, anc_iters,
    \* ---- parse_req and the range check applied to one input ----
    req_pc,              \* "off" | "input" | "parsed" | "checked"
    req_in,              \* the requirement string
    req_out,             \* what parse_req returned for it
    rng_cap,             \* the capability range (c_lo, c_hi)
    rng_out,             \* the reasons the range check appended
    \* ---- determine_transport_mode applied to one input ----
    mode_pc,             \* "off" | "input" | "returned"
    mode_in,             \* [step, step_idx, ids, assigned]
    mode_out,            \* the mode returned
    \* ---- build_capabilities applied to one catalogue ----
    caps_in,             \* the catalogue document (cap_data), <<>> when not in use
    \* ---- build_constraints run one loop iteration at a time ----
    build_phase,         \* "idle" | "reset" | "steps" | "transport" | "objective" | "return"
    build_i,             \* index of the step the running loop is at
    build_invalid,       \* the local invalid_mapping
    \* ---- the matcher and its GUI (src/precise_capability_matcher.py) ----
    matcher,             \* the Matcher object: [recipe, caps, rows, debug_info]
    matcher_pc,          \* "none" | "new" | "returned" | "raised"
    gui_recipe,          \* GUI.recipe
    gui_caps,            \* GUI.caps
    gui_rows,            \* GUI.rows
    btn_match,           \* state of the Match button: "normal" | "disabled"
    btn_export,          \* state of the Export CSV button
    btn_debug,           \* state of the Debug Report button
    status_var,          \* the status line
    gui_last             \* the handler that returned last

vars == << cap_list, semantic_hierarchy, rec_data, step_ids, valid_mapping,
           step_vars, solver, assigned_resources, pc, invalid_mapping,
           last_res, last_model,
           anc_root, ancestors, to_process, anc_pc, anc_adds, anc_iters,
           req_pc, req_in, req_out, rng_cap, rng_out,
           mode_pc, mode_in, mode_out, caps_in,
           build_phase, build_i, build_invalid,
           matcher, matcher_pc, gui_recipe, gui_caps, gui_rows,
           btn_match, btn_export, btn_debug, status_var, gui_last >>

engineVars == << cap_list, semantic_hierarchy, rec_data, step_ids, valid_mapping,
                 step_vars, solver, assigned_resources, pc, invalid_mapping,
                 last_res, last_model >>
ancVars == << anc_root, ancestors, to_process, anc_pc, anc_adds, anc_iters >>
reqVars == << req_pc, req_in, req_out, rng_cap, rng_out >>
modeVars == << mode_pc, mode_in, mode_out >>
capsVars == << caps_in >>
bldVars == << build_phase, build_i, build_invalid >>
guiVars == << matcher, matcher_pc, gui_recipe, gui_caps, gui_rows,
             btn_match, btn_export, btn_debug, status_var, gui_last >>

(***************************************************************************)
(* Generic helpers                                                         *)
(***************************************************************************)
Range(s) == { s[i] : i \in DOMAIN s }

RECURSIVE SeqsUpTo(_, _)
SeqsUpTo(S, n) ==
    IF n = 0 THEN { <<>> }
    ELSE LET shorter == SeqsUpTo(S, n - 1)
         IN  shorter \cup { Append(q, x) : q \in { r \in shorter : Len(r) = n - 1 }, x \in S }

RECURSIVE Pow10(_)
Pow10(n) == IF n = 0 THEN 1 ELSE 10 * Pow10(n - 1)

(***************************************************************************)
(* Python values: None and floats                                          *)
(***************************************************************************)
None == [m |-> 0, e |-> 0 - 1]

RECURSIVE Normalise(_)
Normalise(d) ==
    IF d.e > 0 /\ d.m % 10 = 0 THEN Normalise([m |-> d.m \div 10, e |-> d.e - 1]) ELSE d

Num(n) == [m |-> n, e |-> 0]
Dec(m, e) == Normalise([m |-> m, e |-> e])

\* a < b on floats
Lt(a, b) == a.m * Pow10(b.e) < b.m * Pow10(a.e)
Le(a, b) == a.m * Pow10(b.e) <= b.m * Pow10(a.e)

(***************************************************************************)
(* str.strip, str.startswith, str.split('-'), float(str)                   *)
(***************************************************************************)
Whitespace == { " " }
Digits == { "0", "1", "2", "3", "4", "5", "6", "7", "8", "9" }
DigitVal(c) ==
    CASE c = "0" -> 0 [] c = "1" -> 1 [] c = "2" -> 2 [] c = "3" -> 3 [] c = "4" -> 4
      [] c = "5" -> 5 [] c = "6" -> 6 [] c = "7" -> 7 [] c = "8" -> 8 [] c = "9" -> 9

RECURSIVE LStrip(_)
LStrip(s) == IF s # <<>> /\ Head(s) \in Whitespace THEN LStrip(Tail(s)) ELSE s
RECURSIVE RStrip(_)
RStrip(s) ==
    IF s # <<>> /\ s[Len(s)] \in Whitespace THEN RStrip(SubSeq(s, 1, Len(s) - 1)) ELSE s
Strip(s) == RStrip(LStrip(s))

StartsWith(s, p) == Len(s) >= Len(p) /\ SubSeq(s, 1, Len(p)) = p

\* s.split('-'): the pieces between the '-' characters, in order
RECURSIVE SplitOn(_, _, _)
SplitOn(s, sep, cur) ==
    IF s = <<>> THEN << cur >>
    ELSE IF Head(s) = sep THEN << cur >> \o SplitOn(Tail(s), sep, <<>>)
    ELSE SplitOn(Tail(s), sep, Append(cur, Head(s)))
Split(s, sep) == SplitOn(s, sep, <<>>)

RECURSIVE DigitsValue(_, _)
DigitsValue(s, acc) ==
    IF s = <<>> THEN acc ELSE DigitsValue(Tail(s), 10 * acc + DigitVal(Head(s)))

\* float(s) for the characters of the model's alphabet: optional surrounding
\* whitespace, optional sign, digits with at most one '.', at least one digit.
\* [ok |-> FALSE] stands for ValueError.
PyFloat(s) ==
    LET t    == Strip(s)
        neg  == t # <<>> /\ Head(t) = "-"
        pos  == t # <<>> /\ Head(t) = "+"
        body == IF neg \/ pos THEN Tail(t) ELSE t
        dots == { i \in DOMAIN body : body[i] = "." }
        digs == { i \in DOMAIN body : body[i] \in Digits }
        wellFormed == /\ digs # {}
                      /\ Cardinality(dots) <= 1
                      /\ dots \cup digs = DOMAIN body
        dot  == IF dots = {} THEN Len(body) + 1 ELSE CHOOSE i \in dots : TRUE
        onlyDigits == SubSeq(body, 1, dot - 1) \o SubSeq(body, dot + 1, Len(body))
        mag  == DigitsValue(onlyDigits, 0)
    IN  IF wellFormed
        THEN [ok |-> TRUE, v |-> Dec(IF neg THEN 0 - mag ELSE mag, Len(body) - dot + (IF dots = {} THEN 1 ELSE 0))]
        ELSE [ok |-> FALSE, v |-> None]

(***************************************************************************)
(* SolverEngine.parse_req (src/02.07.py:23-32)                             *)
(* Result [ok, lo, hi]; ok = FALSE stands for the ValueError that float()  *)
(* or the two-name unpacking raises.                                       *)
(***************************************************************************)
Raised == [ok |-> FALSE, lo |-> None, hi |-> None]
Parsed(lo, hi) == [ok |-> TRUE, lo |-> lo, hi |-> hi]

parse_req_mut_ge(str) ==
    LET s == Strip(str)
    IN  IF StartsWith(s, << ">", "=" >>)
        THEN LET f == PyFloat(SubSeq(s, 3, Len(s)))
             IN  IF f.ok THEN Parsed(None, f.v) ELSE Raised
        ELSE IF StartsWith(s, << "<", "=" >>)
        THEN LET f == PyFloat(SubSeq(s, 3, Len(s)))
             IN  IF f.ok THEN Parsed(f.v, None) ELSE Raised
        ELSE IF "-" \in Range(s)
        THEN LET parts == Split(s, "-")
                 Pair(fs) == IF fs[1].ok /\ fs[2].ok THEN Parsed(fs[1].v, fs[2].v)
                             ELSE Raised
             IN  IF Len(parts) = 2 THEN Pair([i \in 1..2 |-> PyFloat(parts[i])])
                 ELSE Raised
        ELSE LET f == PyFloat(s)
             IN  IF f.ok THEN Parsed(f.v, f.v) ELSE Raised

parse_req(str) ==
    LET s == Strip(str)
    IN  IF StartsWith(s, << ">", "=" >>)
        THEN LET f == PyFloat(SubSeq(s, 3, Len(s)))
             IN  IF f.ok THEN Parsed(f.v, None) ELSE Raised
        ELSE IF StartsWith(s, << "<", "=" >>)
        THEN LET f == PyFloat(SubSeq(s, 3, Len(s)))
             IN  IF f.ok THEN Parsed(None, f.v) ELSE Raised
        ELSE IF "-" \in Range(s)
        THEN LET parts == Split(s, "-")
                 Pair(fs) == IF fs[1].ok /\ fs[2].ok THEN Parsed(fs[1].v, fs[2].v)
                             ELSE Raised
             IN  IF Len(parts) = 2 THEN Pair([i \in 1..2 |-> PyFloat(parts[i])])
                 ELSE Raised
        ELSE LET f == PyFloat(s)
             IN  IF f.ok THEN Parsed(f.v, f.v) ELSE Raised

(***************************************************************************)
(* Range check of one required parameter (src/02.07.py:283-288): the       *)
(* reasons appended for key k, requirement (lo, hi), capability range      *)
(* (c_lo, c_hi).                                                           *)
(***************************************************************************)
Reason(kind, k, capv, dem) == [kind |-> kind, key |-> k, cap |-> capv, demand |-> dem]

range_reasons_mut_le(k, lo, hi, c_lo, c_hi) ==
    (IF lo # None /\ c_hi # None /\ Le(c_hi, lo)
        THEN << Reason("max_below_demand", k, c_hi, lo) >> ELSE <<>>)
    \o
    (IF hi # None /\ c_lo # None /\ Lt(hi, c_lo)
        THEN << Reason("min_above_demand", k, c_lo, hi) >> ELSE <<>>)

range_reasons(k, lo, hi, c_lo, c_hi) ==
    (IF lo # None /\ c_hi # None /\ Lt(c_hi, lo)
        THEN << Reason("max_below_demand", k, c_hi, lo) >> ELSE <<>>)
    \o
    (IF hi # None /\ c_lo # None /\ Lt(hi, c_lo)
        THEN << Reason("min_above_demand", k, c_lo, hi) >> ELSE <<>>)

(***************************************************************************)
(* SolverEngine.get_all_ancestor_types (src/02.07.py:45-57)                *)
(***************************************************************************)
\* dict.get(key, default)
Get(d, key, default) == IF key \in DOMAIN d THEN d[key] ELSE default

\* the for-loop over the parents of one popped type (lines 53-56); acc is
\* [ancestors, to_process, added], added listing the types appended
RECURSIVE visit_parents_mut_noguard(_, _)
visit_parents_mut_noguard(parents, acc) ==
    IF parents = <<>> THEN acc
    ELSE visit_parents_mut_noguard(Tail(parents),
            [ancestors  |-> acc.ancestors \cup { Head(parents) },
             to_process |-> Append(acc.to_process, Head(parents)),
             added      |-> Append(acc.added, Head(parents))])

RECURSIVE visit_parents_mut_nopush(_, _)
visit_parents_mut_nopush(parents, acc) ==
    IF parents = <<>> THEN acc
    ELSE visit_parents_mut_nopush(Tail(parents),
            IF Head(parents) \notin acc.ancestors
            THEN [ancestors  |-> acc.ancestors \cup { Head(parents) },
                  to_process |-> acc.to_process,
                  added      |-> acc.added]
            ELSE acc)

RECURSIVE visit_parents(_, _)
visit_parents(parents, acc) ==
    IF parents = <<>> THEN acc
    ELSE LET parent == Head(parents)
         IN  visit_parents(Tail(parents),
                IF parent \notin acc.ancestors
                THEN [ancestors  |-> acc.ancestors \cup { parent },
                      to_process |-> Append(acc.to_process, parent),
                      added      |-> Append(acc.added, parent)]
                ELSE acc)

\* one iteration of the while loop (lines 51-56): pop the last element of
\* to_process and walk its parents
anc_iterate(hier, anc, todo) ==
    LET current == todo[Len(todo)]
        rest    == SubSeq(todo, 1, Len(todo) - 1)
        parents == Get(hier, current, <<>>)
    IN  visit_parents(parents, [ancestors |-> anc, to_process |-> rest, added |-> <<>>])

\* the whole call: the set the returned list holds
RECURSIVE anc_loop(_, _, _)
anc_loop(hier, anc, todo) ==
    IF todo = <<>> THEN anc
    ELSE LET r == anc_iterate(hier, anc, todo)
         IN  anc_loop(hier, r.ancestors, r.to_process)

get_all_ancestor_types(hier, semantic_type) ==
    anc_loop(hier, { semantic_type }, << semantic_type >>)

(***************************************************************************)
(* Identifiers and descriptors.  A capability id, a step id and a semantic *)
(* descriptor are sequences of tokens; "::" and "#" are tokens of their    *)
(* own, so that the code's split("::")[0] and split('#')[-1] are computed, *)
(* not assumed.                                                            *)
(***************************************************************************)
\* str.lower() on the tokens and characters the inputs use
LowerTable ==
    [HeatingProcess |-> "heatingprocess", HeatingOfLiquids |-> "heatingofliquids",
     Dosing |-> "dosing", Transporting |-> "transporting", Conveying |-> "conveying",
     Mode |-> "mode", FeedRate |-> "feedrate", Feed |-> "feed",
     F |-> "f", D |-> "d", T |-> "t", S |-> "s"]
Lower(tok) == IF tok \in DOMAIN LowerTable THEN LowerTable[tok] ELSE tok
LowerStr(str) == [i \in DOMAIN str |-> Lower(str[i])]

\* s.split(sep)[0]: the tokens before the first separator
RECURSIVE SplitFirst(_, _)
SplitFirst(s, sep) ==
    IF s = <<>> \/ Head(s) = sep THEN <<>> ELSE << Head(s) >> \o SplitFirst(Tail(s), sep)

\* s.split(sep)[-1]: the tokens after the last separator
RECURSIVE SplitLast(_, _)
SplitLast(s, sep) ==
    IF s = <<>> \/ s[Len(s)] = sep THEN <<>>
    ELSE Append(SplitLast(SubSeq(s, 1, Len(s) - 1), sep), s[Len(s)])

\* f"{res}::{name}" (line 86)
CapId(res, name) == << res, "::", name >>
\* cap_id.split("::")[0]
ResourceOf(cid) == SplitFirst(cid, "::")

(***************************************************************************)
(* Python dicts: functions; insertion order is kept where the code reads   *)
(* it (the parameter dict of a step, the valid list).                      *)
(***************************************************************************)
EmptyDict == << >>
Put(d, key, val) == [x \in DOMAIN d \cup { key } |-> IF x = key THEN val ELSE d[x]]

\* a or b
Truthy(x) == x # None /\ x.m # 0
PyOr(a, b) == IF Truthy(a) THEN a ELSE b

(***************************************************************************)
(* SolverEngine.build_capabilities (src/02.07.py:59-105)                   *)
(* cap_data is the list of [res, entries] items of the catalogue dict.     *)
(***************************************************************************)
\* all (res, entry) pairs in iteration order (lines 65-66, 76-77)
RECURSIVE AllEntries(_)
AllEntries(cap_data) ==
    IF cap_data = <<>> THEN <<>>
    ELSE [i \in 1..Len(Head(cap_data).entries) |->
              [res |-> Head(cap_data).res, e |-> Head(cap_data).entries[i]]]
         \o AllEntries(Tail(cap_data))

\* lines 68-69 / 80-81
entry_semantic_type(e) ==
    IF "#" \in Range(e.capability_ID)
    THEN LET frag == SplitLast(e.capability_ID, "#")
         IN  IF frag = <<>> THEN "" ELSE frag[Len(frag)]
    ELSE e.capability_name

RECURSIVE collect_hierarchy_mut_first(_, _)
collect_hierarchy_mut_first(entries, hier) ==
    IF entries = <<>> THEN hier
    ELSE collect_hierarchy_mut_first(Tail(entries),
            IF entry_semantic_type(Head(entries).e) \in DOMAIN hier THEN hier
            ELSE Put(hier, entry_semantic_type(Head(entries).e), Head(entries).e.generalized_by))

\* first pass (lines 65-73): later entries of a type overwrite earlier ones
RECURSIVE collect_hierarchy(_, _)
collect_hierarchy(entries, hier) ==
    IF entries = <<>> THEN hier
    ELSE collect_hierarchy(Tail(entries),
            Put(hier, entry_semantic_type(Head(entries).e), Head(entries).e.generalized_by))

\* lines 88-98: the range map of one entry
RECURSIVE entry_props(_, _)
entry_props(properties, props) ==
    IF properties = <<>> THEN props
    ELSE LET p    == Head(properties)
             vmin == PyOr(PyOr(p.valueMin, p.value0), None)
             vmax == PyOr(PyOr(p.valueMax, p.value1), None)
         IN  entry_props(Tail(properties),
                IF p.property_ID # "" THEN Put(props, p.property_ID, << vmin, vmax >>)
                ELSE props)

\* second pass (lines 76-105)
build_cap(hier, res, e) ==
    [id                 |-> CapId(res, e.capability_name),
     name               |-> e.capability_name,
     semantic_type      |-> entry_semantic_type(e),
     all_semantic_types |-> get_all_ancestor_types(hier, entry_semantic_type(e)),
     props              |-> entry_props(e.properties, EmptyDict)]

build_capabilities(cap_data) ==
    LET entries == AllEntries(cap_data)
        hier    == collect_hierarchy(entries, EmptyDict)
    IN  [semantic_hierarchy |-> hier,
         cap_list |-> [i \in 1..Len(entries) |-> build_cap(hier, entries[i].res, entries[i].e)]]

(***************************************************************************)
(* SolverEngine.determine_transport_mode (src/02.07.py:181-235)            *)
(***************************************************************************)
TRANSPORT_TYPES == { "dosing", "transporting", "conveying" }
TRANSPORT_MODES == { << "f", "e", "e", "d" >>,
                     << "d", "i", "s", "c", "h", "a", "r", "g", "e" >>,
                     << "t", "r", "a", "n", "s", "f", "e", "r" >> }
ModeName(str) ==
    CASE str = << "f", "e", "e", "d" >> -> "feed"
      [] str = << "d", "i", "s", "c", "h", "a", "r", "g", "e" >> -> "discharge"
      [] str = << "t", "r", "a", "n", "s", "f", "e", "r" >> -> "transfer"
NoMode == "None"
Untagged == "untagged"

\* the hint words a token of a step id contains, after lower()
IdWordTable ==
    [feed |-> { "feed" }, inlet |-> { "inlet" }, input |-> { "input" },
     discharge |-> { "discharge" }, outlet |-> { "outlet" }, output |-> { "output" },
     transfer |-> { "transfer" }, move |-> { "move" }, convey |-> { "convey" },
     conveying |-> { "convey" }, dosing |-> { "dosing" }]
IdContains(sid, word) ==
    \E i \in DOMAIN sid :
        Lower(sid[i]) \in DOMAIN IdWordTable /\ word \in IdWordTable[Lower(sid[i])]

\* step.get('SemanticDescription', '').split('#')[-1]
step_semantic_of(step) ==
    LET frag == SplitLast(step.SemanticDescription, "#")
    IN  IF frag = <<>> THEN "" ELSE frag[Len(frag)]

\* self.assigned_resources.get(sid, "").split("::")[0]
assigned_resource(assigned, sid) ==
    IF sid \in DOMAIN assigned THEN ResourceOf(assigned[sid]) ELSE <<>>

continuity_mode_mut_swapped(ids, step_idx, sid, assigned) ==
    LET prev_resource    == assigned_resource(assigned, ids[step_idx - 1])
        next_resource    == assigned_resource(assigned, ids[step_idx + 1])
        current_resource == assigned_resource(assigned, sid)
    IN  IF current_resource # <<>> /\ prev_resource # <<>> /\ next_resource # <<>>
        THEN IF current_resource # prev_resource /\ current_resource = next_resource
             THEN "discharge"
             ELSE IF current_resource = prev_resource /\ current_resource # next_resource
             THEN "feed"
             ELSE IF current_resource # prev_resource /\ current_resource # next_resource
             THEN "transfer"
             ELSE NoMode
        ELSE NoMode

\* rule 5 (lines 220-232): NoMode when it yields nothing
continuity_mode(ids, step_idx, sid, assigned) ==
    LET prev_resource    == assigned_resource(assigned, ids[step_idx - 1])
        next_resource    == assigned_resource(assigned, ids[step_idx + 1])
        current_resource == assigned_resource(assigned, sid)
    IN  IF current_resource # <<>> /\ prev_resource # <<>> /\ next_resource # <<>>
        THEN IF current_resource # prev_resource /\ current_resource = next_resource
             THEN "feed"
             ELSE IF current_resource = prev_resource /\ current_resource # next_resource
             THEN "discharge"
             ELSE IF current_resource # prev_resource /\ current_resource # next_resource
             THEN "transfer"
             ELSE NoMode
        ELSE NoMode

determine_transport_mode_mut_default(step, step_idx, ids, assigned) ==
    LET sid        == step.ID
        step_type  == Lower(step_semantic_of(step))
        modeParams == { i \in DOMAIN step.Parameters : Lower(step.Parameters[i].Key) = "mode" }
        explicit   == IF modeParams = {} THEN <<>>
                      ELSE Strip(LowerStr(step.Parameters[
                               CHOOSE i \in modeParams : \A j \in modeParams : i <= j].ValueString))
        param_keys == { Lower(step.Parameters[i].Key) : i \in DOMAIN step.Parameters }
    IN  IF step_idx = 1 \/ step_idx = Len(ids) THEN NoMode
        ELSE IF step_type \notin TRANSPORT_TYPES THEN NoMode
        ELSE IF modeParams # {} /\ explicit \in TRANSPORT_MODES THEN ModeName(explicit)
        ELSE IF IdContains(sid, "feed") \/ IdContains(sid, "inlet") \/ IdContains(sid, "input")
        THEN "feed"
        ELSE IF IdContains(sid, "discharge") \/ IdContains(sid, "outlet") \/ IdContains(sid, "output")
        THEN "discharge"
        ELSE IF IdContains(sid, "transfer") \/ IdContains(sid, "move")
                \/ IdContains(sid, "convey") \/ IdContains(sid, "dosing")
        THEN "transfer"
        ELSE IF { "feedrate", "inletflow", "feed_flow" } \cap param_keys # {} THEN "feed"
        ELSE IF { "dischargerate", "outlettarget", "discharge_flow" } \cap param_keys # {}
        THEN "discharge"
        ELSE IF { "transferdistance", "conveyorspeed", "transfer_time" } \cap param_keys # {}
        THEN "transfer"
        ELSE IF continuity_mode(ids, step_idx, sid, assigned) # NoMode
        THEN continuity_mode(ids, step_idx, sid, assigned)
        ELSE "feed"


determine_transport_mode_mut_idfirst(step, step_idx, ids, assigned) ==
    LET sid        == step.ID
        step_type  == Lower(step_semantic_of(step))
        modeParams == { i \in DOMAIN step.Parameters : Lower(step.Parameters[i].Key) = "mode" }
        explicit   == IF modeParams = {} THEN <<>>
                      ELSE Strip(LowerStr(step.Parameters[
                               CHOOSE i \in modeParams : \A j \in modeParams : i <= j].ValueString))
        param_keys == { Lower(step.Parameters[i].Key) : i \in DOMAIN step.Parameters }
    IN  IF step_idx = 1 \/ step_idx = Len(ids) THEN NoMode
        ELSE IF step_type \notin TRANSPORT_TYPES THEN NoMode
        ELSE IF IdContains(sid, "feed") \/ IdContains(sid, "inlet") \/ IdContains(sid, "input")
        THEN "feed"
        ELSE IF IdContains(sid, "discharge") \/ IdContains(sid, "outlet") \/ IdContains(sid, "output")
        THEN "discharge"
        ELSE IF IdContains(sid, "transfer") \/ IdContains(sid, "move")
                \/ IdContains(sid, "convey") \/ IdContains(sid, "dosing")
        THEN "transfer"
        ELSE IF modeParams # {} /\ explicit \in TRANSPORT_MODES THEN ModeName(explicit)
        ELSE IF { "feedrate", "inletflow", "feed_flow" } \cap param_keys # {} THEN "feed"
        ELSE IF { "dischargerate", "outlettarget", "discharge_flow" } \cap param_keys # {}
        THEN "discharge"
        ELSE IF { "transferdistance", "conveyorspeed", "transfer_time" } \cap param_keys # {}
        THEN "transfer"
        ELSE IF continuity_mode(ids, step_idx, sid, assigned) # NoMode
        THEN continuity_mode(ids, step_idx, sid, assigned)
        ELSE "transfer"


\* step_idx counts from 1 here (0 in the code)
determine_transport_mode(step, step_idx, ids, assigned) ==
    LET sid        == step.ID
        step_type  == Lower(step_semantic_of(step))
        modeParams == { i \in DOMAIN step.Parameters : Lower(step.Parameters[i].Key) = "mode" }
        explicit   == IF modeParams = {} THEN <<>>
                      ELSE Strip(LowerStr(step.Parameters[
                               CHOOSE i \in modeParams : \A j \in modeParams : i <= j].ValueString))
        param_keys == { Lower(step.Parameters[i].Key) : i \in DOMAIN step.Parameters }
    IN  IF step_idx = 1 \/ step_idx = Len(ids) THEN NoMode
        ELSE IF step_type \notin TRANSPORT_TYPES THEN NoMode
        ELSE IF modeParams # {} /\ explicit \in TRANSPORT_MODES THEN ModeName(explicit)
        ELSE IF IdContains(sid, "feed") \/ IdContains(sid, "inlet") \/ IdContains(sid, "input")
        THEN "feed"
        ELSE IF IdContains(sid, "discharge") \/ IdContains(sid, "outlet") \/ IdContains(sid, "output")
        THEN "discharge"
        ELSE IF IdContains(sid, "transfer") \/ IdContains(sid, "move")
                \/ IdContains(sid, "convey") \/ IdContains(sid, "dosing")
        THEN "transfer"
        ELSE IF { "feedrate", "inletflow", "feed_flow" } \cap param_keys # {} THEN "feed"
        ELSE IF { "dischargerate", "outlettarget", "discharge_flow" } \cap param_keys # {}
        THEN "discharge"
        ELSE IF { "transferdistance", "conveyorspeed", "transfer_time" } \cap param_keys # {}
        THEN "transfer"
        ELSE IF continuity_mode(ids, step_idx, sid, assigned) # NoMode
        THEN continuity_mode(ids, step_idx, sid, assigned)
        ELSE "transfer"

tag_steps_mut_all(steps, ids, assigned) ==
    [i \in DOMAIN steps |->
        [steps[i] EXCEPT !.transport_mode =
            IF IdContains(steps[i].ID, "feed") THEN "feed" ELSE NoMode]]

\* first loop of build_constraints (lines 245-252): tag every step
tag_steps(steps, ids, assigned) ==
    [i \in DOMAIN steps |->
        [steps[i] EXCEPT !.transport_mode =
            IF i > 1 /\ i < Len(ids)
            THEN determine_transport_mode(steps[i], i, ids, assigned)
            ELSE NoMode]]

(***************************************************************************)
(* Eligibility filter of build_constraints (src/02.07.py:254-295)          *)
(***************************************************************************)
\* {p['Key']: p['ValueString'] for p in Parameters}: keys in order of first
\* occurrence, each with the value of its last occurrence
param_keys(parameters) ==
    LET firsts == { i \in DOMAIN parameters :
                        \A j \in DOMAIN parameters : j < i => parameters[j].Key # parameters[i].Key }
        RECURSIVE InOrder(_)
        InOrder(i) == IF i > Len(parameters) THEN <<>>
                      ELSE (IF i \in firsts THEN << parameters[i].Key >> ELSE <<>>) \o InOrder(i + 1)
    IN  InOrder(1)
param_value(parameters, k) ==
    LET last == CHOOSE i \in DOMAIN parameters :
                    /\ parameters[i].Key = k
                    /\ \A j \in DOMAIN parameters : parameters[j].Key = k => j <= i
    IN  parameters[last].ValueString

\* check 1 (lines 267-272)
semantic_match_mut_cased(step_semantic, cap) ==
    step_semantic \in cap.all_semantic_types

semantic_match(step_semantic, cap) ==
    Lower(step_semantic) \in { Lower(t) : t \in cap.all_semantic_types }

missing_params_mut_all(keys, cap) == keys

\* check 2 (line 275)
missing_params(keys, cap) == SelectSeq(keys, LAMBDA k : k \notin DOMAIN cap.props)

RECURSIVE range_check_mut_first(_, _, _, _)
range_check_mut_first(keys, parameters, cap, reasons) ==
    IF keys = <<>> \/ reasons # <<>> THEN [raised |-> FALSE, reasons |-> reasons]
    ELSE LET k == Head(keys)
             Checked(req) ==
                 IF ~req.ok THEN [raised |-> TRUE, reasons |-> reasons]
                 ELSE range_check_mut_first(Tail(keys), parameters, cap,
                          reasons \o range_reasons(k, req.lo, req.hi,
                                                   cap.props[k][1], cap.props[k][2]))
         IN  Checked(parse_req(param_value(parameters, k)))

\* check 3 (lines 280-288): [raised, reasons]; a ValueError of parse_req
\* leaves the loop at once
RECURSIVE range_check(_, _, _, _)
range_check(keys, parameters, cap, reasons) ==
    IF keys = <<>> THEN [raised |-> FALSE, reasons |-> reasons]
    ELSE LET k == Head(keys)
             Checked(req) ==
                 IF ~req.ok THEN [raised |-> TRUE, reasons |-> reasons]
                 ELSE range_check(Tail(keys), parameters, cap,
                          reasons \o range_reasons(k, req.lo, req.hi,
                                                   cap.props[k][1], cap.props[k][2]))
         IN  Checked(parse_req(param_value(parameters, k)))

check_cap_mut_noreason(step, cap) ==
    LET Ranges(rc) ==
            IF rc.raised THEN [status |-> "raised", reasons |-> <<>>]
            ELSE IF rc.reasons # <<>> THEN [status |-> "invalid", reasons |-> rc.reasons]
            ELSE [status |-> "valid", reasons |-> <<>>]
        Covered(keys, missing) ==
            IF missing # <<>>
            THEN [status |-> "invalid",
                  reasons |-> [i \in DOMAIN missing |->
                                  Reason("missing", missing[i], None, None)]]
            ELSE Ranges(range_check(keys, step.Parameters, cap, <<>>))
        Keyed(keys) == Covered(keys, missing_params(keys, cap))
        Typed(step_semantic) ==
            IF ~semantic_match(step_semantic, cap)
            THEN [status |-> "invalid",
                  reasons |-> <<>>]
            ELSE Keyed(param_keys(step.Parameters))
    IN  Typed(step_semantic_of(step))

\* the coverage check made before the type check
check_cap_mut_missingfirst(step, cap) ==
    LET Ranges(rc) ==
            IF rc.raised THEN [status |-> "raised", reasons |-> <<>>]
            ELSE IF rc.reasons # <<>> THEN [status |-> "invalid", reasons |-> rc.reasons]
            ELSE [status |-> "valid", reasons |-> <<>>]
        Typed(keys, step_semantic) ==
            IF ~semantic_match(step_semantic, cap)
            THEN [status |-> "invalid",
                  reasons |-> << Reason("type_mismatch", step_semantic, None, None) >>]
            ELSE Ranges(range_check(keys, step.Parameters, cap, <<>>))
        Covered(keys, missing) ==
            IF missing # <<>>
            THEN [status |-> "invalid",
                  reasons |-> [i \in DOMAIN missing |->
                                  Reason("missing", missing[i], None, None)]]
            ELSE Typed(keys, step_semantic_of(step))
        Keyed(keys) == Covered(keys, missing_params(keys, cap))
    IN  Keyed(param_keys(step.Parameters))

\* the body of the loop over cap_list for one capability (lines 264-292):
\* status "valid" | "invalid" | "raised"
check_cap(step, cap) ==
    LET Ranges(rc) ==
            IF rc.raised THEN [status |-> "raised", reasons |-> <<>>]
            ELSE IF rc.reasons # <<>> THEN [status |-> "invalid", reasons |-> rc.reasons]
            ELSE [status |-> "valid", reasons |-> <<>>]
        Covered(keys, missing) ==
            IF missing # <<>>
            THEN [status |-> "invalid",
                  reasons |-> [i \in DOMAIN missing |->
                                  Reason("missing", missing[i], None, None)]]
            ELSE Ranges(range_check(keys, step.Parameters, cap, <<>>))
        Keyed(keys) == Covered(keys, missing_params(keys, cap))
        Typed(step_semantic) ==
            IF ~semantic_match(step_semantic, cap)
            THEN [status |-> "invalid",
                  reasons |-> << Reason("type_mismatch", step_semantic, None, None) >>]
            ELSE Keyed(param_keys(step.Parameters))
    IN  Typed(step_semantic_of(step))

\* the loop over cap_list for one step (lines 262-292)
RECURSIVE filter_caps(_, _, _)
filter_caps(step, caps, acc) ==
    IF caps = <<>> THEN acc
    ELSE LET cap == Head(caps)
             Filed(r) ==
                 IF r.status = "raised" THEN [acc EXCEPT !.raised = TRUE]
                 ELSE filter_caps(step, Tail(caps),
                          IF r.status = "invalid"
                          THEN [acc EXCEPT !.invalid = Put(@, cap.id, r.reasons)]
                          ELSE [acc EXCEPT !.valid = Append(@, cap.id)])
         IN  Filed(check_cap(step, cap))

eligibility(step, caps) ==
    filter_caps(step, caps, [valid |-> <<>>, invalid |-> EmptyDict, raised |-> FALSE])

(***************************************************************************)
(* Constraints asserted on the solver.  A selection variable is the pair   *)
(* (step id, capability id) that names it (Bool(f"{sid}__{cid}")).         *)
(***************************************************************************)
CFalse           == [kind |-> "False",   ante |-> <<>>,      vars |-> <<>>]
COr(vs)          == [kind |-> "Or",      ante |-> <<>>,      vars |-> vs]
CNotAnd(a, b)    == [kind |-> "NotAnd",  ante |-> <<>>,      vars |-> << a, b >>]
CImplies(v, vs)  == [kind |-> "Implies", ante |-> << v >>,   vars |-> vs]
CNot(v)          == [kind |-> "Not",     ante |-> <<>>,      vars |-> << v >>]

\* lines 303-306
at_least_one_mut_skip(vars_for) ==
    IF vars_for = <<>> THEN <<>> ELSE << COr(vars_for) >>

at_least_one(vars_for) ==
    IF vars_for = <<>> THEN << CFalse >> ELSE << COr(vars_for) >>

\* lines 308-310: Not(And(vars_for[i], vars_for[j])) for i < j
mutual_exclusion_mut_none(vars_for) == <<>>

mutual_exclusion(vars_for) ==
    LET n == Len(vars_for)
        RECURSIVE Inner(_, _)
        Inner(i, j) == IF j > n THEN <<>>
                       ELSE << CNotAnd(vars_for[i], vars_for[j]) >> \o Inner(i, j + 1)
        RECURSIVE Outer(_)
        Outer(i) == IF i > n THEN <<>> ELSE Inner(i, i + 1) \o Outer(i + 1)
    IN  IF n = 0 THEN <<>> ELSE Outer(1)

\* a step whose variables are left free
step_constraints_mut_free(sid, valid) ==
    IF valid = <<>> THEN << CFalse >> ELSE <<>>

\* lines 297-310 for one step
step_constraints(sid, valid) ==
    LET vars_for == [i \in DOMAIN valid |-> << sid, valid[i] >>]
    IN  at_least_one(vars_for) \o mutual_exclusion(vars_for)

(***************************************************************************)
(* Transport-continuity constraints (src/02.07.py:107-179)                 *)
(***************************************************************************)
\* list.index
IndexOf(ids, sid) == CHOOSE i \in DOMAIN ids : ids[i] = sid /\ \A j \in DOMAIN ids : ids[j] = sid => i <= j

\* the variables of step other whose capability is on resource (same = TRUE)
\* or on another resource (same = FALSE), in valid-list order
neighbour_vars(vm, other, resource, same) ==
    LET cids == Get(vm, other, <<>>)
        sel  == SelectSeq(cids, LAMBDA c : (ResourceOf(c) = resource) = same)
    IN  [i \in DOMAIN sel |-> << other, sel[i] >>]

link_mut_open(transport_var, others) ==
    IF others # <<>> THEN << CImplies(transport_var, others) >> ELSE <<>>

\* lines 123-126 and their copies
link(transport_var, others) ==
    IF others # <<>> THEN << CImplies(transport_var, others) >> ELSE << CNot(transport_var) >>

\* the constraints added per capability, concatenated in loop order
RECURSIVE Flatten(_)
Flatten(ss) == IF ss = <<>> THEN <<>> ELSE Head(ss) \o Flatten(Tail(ss))

handle_feed_mode_mut_none(vm, step_id, all_step_ids) == <<>>

handle_feed_mode(vm, step_id, all_step_ids) ==
    LET idx == IndexOf(all_step_ids, step_id)
        PerCap(cap_id) ==
            link(<< step_id, cap_id >>,
                 neighbour_vars(vm, all_step_ids[idx - 1], ResourceOf(cap_id), TRUE))
    IN  IF idx = 1 THEN <<>> ELSE Flatten([i \in DOMAIN Get(vm, step_id, <<>>) |-> PerCap(Get(vm, step_id, <<>>)[i])])

handle_discharge_mode_mut_none(vm, step_id, all_step_ids) == <<>>

handle_discharge_mode(vm, step_id, all_step_ids) ==
    LET idx == IndexOf(all_step_ids, step_id)
        PerCap(cap_id) ==
            link(<< step_id, cap_id >>,
                 neighbour_vars(vm, all_step_ids[idx + 1], ResourceOf(cap_id), TRUE))
    IN  IF idx = Len(all_step_ids) THEN <<>> ELSE Flatten([i \in DOMAIN Get(vm, step_id, <<>>) |-> PerCap(Get(vm, step_id, <<>>)[i])])

handle_transfer_mode_mut_prevonly(vm, step_id, all_step_ids) ==
    LET idx == IndexOf(all_step_ids, step_id)
        PerCap(cap_id) ==
            IF idx > 1 /\ all_step_ids[idx - 1] # <<>>
            THEN link(<< step_id, cap_id >>,
                      neighbour_vars(vm, all_step_ids[idx - 1], ResourceOf(cap_id), FALSE))
            ELSE <<>>
    IN  Flatten([i \in DOMAIN Get(vm, step_id, <<>>) |-> PerCap(Get(vm, step_id, <<>>)[i])])

handle_transfer_mode(vm, step_id, all_step_ids) ==
    LET idx == IndexOf(all_step_ids, step_id)
        PerCap(cap_id) ==
            (IF idx > 1 /\ all_step_ids[idx - 1] # <<>>
             THEN link(<< step_id, cap_id >>,
                       neighbour_vars(vm, all_step_ids[idx - 1], ResourceOf(cap_id), FALSE))
             ELSE <<>>)
            \o
            (IF idx < Len(all_step_ids) /\ all_step_ids[idx + 1] # <<>>
             THEN link(<< step_id, cap_id >>,
                       neighbour_vars(vm, all_step_ids[idx + 1], ResourceOf(cap_id), FALSE))
             ELSE <<>>)
    IN  Flatten([i \in DOMAIN Get(vm, step_id, <<>>) |-> PerCap(Get(vm, step_id, <<>>)[i])])

\* third loop of build_constraints (lines 313-326)
RECURSIVE transport_constraints(_, _, _, _)
transport_constraints(steps, ids, vm, i) ==
    IF i > Len(steps) THEN <<>>
    ELSE LET step      == steps[i]
             step_type == Lower(step_semantic_of(step))
             mode      == step.transport_mode
             mine      == IF step_type \in TRANSPORT_TYPES /\ mode # NoMode
                          THEN CASE mode = "feed"      -> handle_feed_mode(vm, step.ID, ids)
                                 [] mode = "discharge" -> handle_discharge_mode(vm, step.ID, ids)
                                 [] mode = "transfer"  -> handle_transfer_mode(vm, step.ID, ids)
                                 [] OTHER              -> <<>>
                          ELSE <<>>
         IN  mine \o transport_constraints(steps, ids, vm, i + 1)

\* build_steps with the continuity constraints of a step added as soon as the
\* step's own variables exist
RECURSIVE build_steps_mut_early(_, _, _, _)
build_steps_mut_early(steps, caps, i, acc) ==
    IF i > Len(steps) THEN acc
    ELSE LET step == steps[i]
             Stepped(el) ==
                 IF el.raised THEN [acc EXCEPT !.raised = TRUE]
                 ELSE build_steps_mut_early(steps, caps, i + 1,
                        [valid_mapping   |-> Put(acc.valid_mapping, step.ID, el.valid),
                         invalid_mapping |-> Put(acc.invalid_mapping, step.ID, el.invalid),
                         step_vars       |-> acc.step_vars
                                             \cup { << step.ID, el.valid[k] >> :
                                                        k \in DOMAIN el.valid },
                         constraints     |-> acc.constraints
                                             \o step_constraints(step.ID, el.valid)
                                             \o transport_constraints(SubSeq(steps, 1, i),
                                                    [j \in DOMAIN steps |-> steps[j].ID],
                                                    Put(acc.valid_mapping, step.ID, el.valid), i),
                         raised          |-> FALSE])
         IN  Stepped(eligibility(step, caps))

RECURSIVE build_steps_mut_allcaps(_, _, _, _)
build_steps_mut_allcaps(steps, caps, i, acc) ==
    IF i > Len(steps) THEN acc
    ELSE LET step == steps[i]
             Stepped(el) ==
                 IF el.raised THEN [acc EXCEPT !.raised = TRUE]
                 ELSE build_steps_mut_allcaps(steps, caps, i + 1,
                        [valid_mapping   |-> Put(acc.valid_mapping, step.ID, el.valid),
                         invalid_mapping |-> Put(acc.invalid_mapping, step.ID, el.invalid),
                         step_vars       |-> acc.step_vars
                                             \cup { << step.ID, caps[k].id >> : k \in DOMAIN caps },
                         constraints     |-> acc.constraints
                                             \o step_constraints(step.ID, el.valid),
                         raised          |-> FALSE])
         IN  Stepped(eligibility(step, caps))

\* second loop of build_constraints (lines 254-310) from step i on; acc is
\* [valid_mapping, invalid_mapping, step_vars, constraints, raised]
RECURSIVE build_steps(_, _, _, _)
build_steps(steps, caps, i, acc) ==
    IF i > Len(steps) THEN acc
    ELSE LET step == steps[i]
             Stepped(el) ==
                 IF el.raised THEN [acc EXCEPT !.raised = TRUE]
                 ELSE build_steps(steps, caps, i + 1,
                        [valid_mapping   |-> Put(acc.valid_mapping, step.ID, el.valid),
                         invalid_mapping |-> Put(acc.invalid_mapping, step.ID, el.invalid),
                         step_vars       |-> acc.step_vars
                                             \cup { << step.ID, el.valid[k] >> :
                                                        k \in DOMAIN el.valid },
                         constraints     |-> acc.constraints
                                             \o step_constraints(step.ID, el.valid),
                         raised          |-> FALSE])
         IN  Stepped(eligibility(step, caps))

(***************************************************************************)
(* SolverEngine.build_constraints (src/02.07.py:237-333)                   *)
(* The result carries every field the call writes; raised = TRUE when a    *)
(* ValueError of parse_req left the call, with what had been written.      *)
(***************************************************************************)
NoObjective == [set |-> FALSE, vars |-> {}]
Maximize(vs) == [set |-> TRUE, vars |-> vs]

build_constraints(steps, ids, caps, assigned) ==
    LET Built(tagged, b) ==
            IF b.raised
            THEN [rec_data |-> tagged, valid_mapping |-> b.valid_mapping,
                  invalid_mapping |-> EmptyDict, step_vars |-> b.step_vars,
                  solver |-> [constraints |-> b.constraints, objective |-> NoObjective],
                  raised |-> TRUE]
            ELSE [rec_data |-> tagged, valid_mapping |-> b.valid_mapping,
                  invalid_mapping |-> b.invalid_mapping, step_vars |-> b.step_vars,
                  solver |-> [constraints |-> b.constraints
                                  \o transport_constraints(tagged, ids, b.valid_mapping, 1),
                              objective |-> IF b.step_vars # {} THEN Maximize(b.step_vars)
                                            ELSE NoObjective],
                  raised |-> FALSE]
        Tagged(tagged) ==
            Built(tagged, build_steps(tagged, caps, 1,
                      [valid_mapping |-> EmptyDict, invalid_mapping |-> EmptyDict,
                       step_vars |-> {}, constraints |-> <<>>, raised |-> FALSE]))
    IN  Tagged(tag_steps(steps, ids, assigned))

(***************************************************************************)
(* The solving oracle (z3 Optimize) and SolverEngine.solve                 *)
(* (src/02.07.py:335-350).  A model is the set of variables it makes true. *)
(***************************************************************************)
Holds(c, m) ==
    CASE c.kind = "False"   -> FALSE
      [] c.kind = "Or"      -> \E i \in DOMAIN c.vars : c.vars[i] \in m
      [] c.kind = "NotAnd"  -> ~(c.vars[1] \in m /\ c.vars[2] \in m)
      [] c.kind = "Implies" -> (c.ante[1] \in m) => (\E i \in DOMAIN c.vars : c.vars[i] \in m)
      [] c.kind = "Not"     -> c.vars[1] \notin m

SolverVars(sv) ==
    UNION { Range(sv.constraints[i].vars) \cup Range(sv.constraints[i].ante)
            : i \in DOMAIN sv.constraints } \cup sv.objective.vars

\* every assignment that satisfies all asserted constraints
Models(sv) ==
    { m \in SUBSET SolverVars(sv) : \A i \in DOMAIN sv.constraints : Holds(sv.constraints[i], m) }

\* the assignments check() may return: the satisfying ones that maximise the objective
OptimalModels(sv) ==
    LET ms == Models(sv)
        Score(m) == Cardinality(m \cap sv.objective.vars)
    IN  { m \in ms : \A o \in ms : Score(o) <= Score(m) }

\* lines 343-348: the first capability of each step's valid list whose variable is true
extract_mut_first_valid(ids, vm, sv, m) ==
    LET covered == { sid \in Range(ids) : Get(vm, sid, <<>>) # <<>> }
    IN  [sid \in covered |-> vm[sid][1]]

extract(ids, vm, sv, m) ==
    LET TrueAt(sid) == { i \in DOMAIN Get(vm, sid, <<>>) : << sid, vm[sid][i] >> \in sv /\ << sid, vm[sid][i] >> \in m }
        covered == { sid \in Range(ids) : TrueAt(sid) # {} }
    IN  [sid \in covered |->
            vm[sid][CHOOSE i \in TrueAt(sid) : \A j \in TrueAt(sid) : i <= j]]

(***************************************************************************)
(* Inputs: capability catalogues and recipes                               *)
(***************************************************************************)
MaxSteps == 3

Prop(pid, vmin, vmax) ==
    [property_ID |-> pid, valueMin |-> vmin, valueMax |-> vmax, value0 |-> None, value1 |-> None]
HeatEntry(hi) ==
    [capability_name |-> "Heat", capability_ID |-> << "cap", "#", "HeatingOfLiquids" >>,
     generalized_by |-> << "HeatingProcess" >>,
     properties |-> << Prop("temp", Num(20), Num(hi)) >>]
DoseEntry ==
    [capability_name |-> "Dosing", capability_ID |-> <<>>, generalized_by |-> <<>>,
     properties |-> <<>>]

CatalogPool ==
    { << [res |-> "R1", entries |-> << HeatEntry(100), DoseEntry >>],
         [res |-> "R2", entries |-> << HeatEntry(200), DoseEntry >>] >>,
      << [res |-> "R1", entries |-> << HeatEntry(100), DoseEntry >>] >> }

Param(k, v) == [Key |-> k, ValueString |-> v]
StepTemplates ==
    { [stem |-> "S", SemanticDescription |-> << "proc", "#", "heatingprocess" >>,
       Parameters |-> << Param("temp", << ">", "=", "1", "5", "0" >>) >>],
      [stem |-> "S", SemanticDescription |-> << "proc", "#", "Dosing" >>,
       Parameters |-> <<>>] }

IndexToken(i) == << "1", "2", "3", "4", "5", "6" >>[i]
StepOf(t, i) ==
    [ID |-> << t.stem, IndexToken(i) >>, SemanticDescription |-> t.SemanticDescription,
     Parameters |-> t.Parameters, transport_mode |-> Untagged]
RecipePool ==
    { [i \in DOMAIN ts |-> StepOf(ts[i], i)] : ts \in SeqsUpTo(StepTemplates, MaxSteps) }

(***************************************************************************)
(* SMTGuiApp.run (src/02.07.py:405-463): load_data, build_constraints and  *)
(* solve in turn; an exception ends the run.                               *)
(***************************************************************************)
EngineInit ==
    /\ cap_list = <<>>
    /\ semantic_hierarchy = EmptyDict
    /\ rec_data = <<>>
    /\ step_ids = <<>>
    /\ valid_mapping = EmptyDict
    /\ step_vars = {}
    /\ solver = [constraints |-> <<>>, objective |-> NoObjective]
    /\ assigned_resources = EmptyDict
    /\ pc = "idle"
    /\ invalid_mapping = EmptyDict
    /\ last_res = "none"
    /\ last_model = {}

\* the matcher GUI and its Matcher object before any use
\* json.load results: a JSON object with the keys it has; None before a load
NoDoc == [kind |-> "none", keys |-> {}]
RecipeDoc(steps) == [kind |-> "dict", keys |-> { "ProcessElements" }, ProcessElements |-> steps]
CapsDoc(its) == [kind |-> "dict", keys |-> { its[i].res : i \in DOMAIN its }, items |-> its]
\* the JSON text {}
EmptyRecipeDoc == [kind |-> "dict", keys |-> {}, ProcessElements |-> <<>>]
EmptyCapsDoc == [kind |-> "dict", keys |-> {}, items |-> <<>>]
\* bool(doc)
DocTruthy(doc) == doc.kind = "dict" /\ doc.keys # {}

\* Matcher.__init__ (lines 157-161)
Matcher(recipe, caps) == [recipe |-> recipe, caps |-> caps, rows |-> <<>>, debug_info |-> <<>>]
NoMatcher == Matcher(NoDoc, NoDoc)

GuiIdle ==
    /\ matcher = NoMatcher /\ matcher_pc = "none"
    /\ gui_recipe = NoDoc /\ gui_caps = NoDoc /\ gui_rows = <<>>
    /\ btn_match = "disabled" /\ btn_export = "disabled" /\ btn_debug = "disabled"
    /\ status_var = "Ready" /\ gui_last = "none"

AncIdle ==
    /\ anc_root = "" /\ ancestors = {} /\ to_process = <<>>
    /\ anc_pc = "off" /\ anc_adds = EmptyDict /\ anc_iters = 0
ReqIdle ==
    /\ req_pc = "off" /\ req_in = <<>> /\ req_out = Raised /\ rng_cap = << None, None >> /\ rng_out = <<>>
ModeIdle ==
    /\ mode_pc = "off" /\ mode_in = <<>> /\ mode_out = NoMode
CapsIdle == caps_in = <<>>
BuildIdle == build_phase = "idle" /\ build_i = 0 /\ build_invalid = EmptyDict

Init == EngineInit /\ AncIdle /\ ReqIdle /\ ModeIdle /\ CapsIdle /\ BuildIdle /\ GuiIdle

\* the files the user can select: each catalogue with what build_capabilities
\* makes of it
CatalogFiles == { [cap_data |-> c, built |-> build_capabilities(c)] : c \in CatalogPool }

\* load_data (lines 34-43)
LoadData(cap_file, recipe) ==
    /\ pc \in { "idle", "solved", "failed" }
    /\ cap_list' = cap_file.built.cap_list
    /\ semantic_hierarchy' = cap_file.built.semantic_hierarchy
    /\ rec_data' = recipe
    /\ step_ids' = [i \in DOMAIN recipe |-> recipe[i].ID]
    /\ pc' = "loaded"
    /\ UNCHANGED << valid_mapping, step_vars, solver, assigned_resources,
                    invalid_mapping, last_res, last_model >>
    /\ UNCHANGED << ancVars, reqVars, modeVars, capsVars, bldVars, guiVars >>

\* build_constraints (lines 237-333)
BuildConstraints ==
    /\ pc = "loaded"
    /\ \E b \in { build_constraints(rec_data, step_ids, cap_list, assigned_resources) } :
           /\ rec_data' = b.rec_data
           /\ valid_mapping' = b.valid_mapping
           /\ step_vars' = b.step_vars
           /\ solver' = b.solver
           /\ invalid_mapping' = IF b.raised THEN invalid_mapping ELSE b.invalid_mapping
           /\ pc' = IF b.raised THEN "failed" ELSE "built"
    /\ UNCHANGED << cap_list, semantic_hierarchy, step_ids, assigned_resources,
                    last_res, last_model >>
    /\ UNCHANGED << ancVars, reqVars, modeVars, capsVars, bldVars, guiVars >>

\* solve (lines 335-350), the oracle answering UNSAT
SolveUnsat ==
    /\ pc = "built"
    /\ Models(solver) = {}
    /\ last_res' = "unsat"
    /\ last_model' = {}
    /\ pc' = "solved"
    /\ UNCHANGED << cap_list, semantic_hierarchy, rec_data, step_ids, valid_mapping,
                    step_vars, solver, assigned_resources, invalid_mapping >>
    /\ UNCHANGED << ancVars, reqVars, modeVars, capsVars, bldVars, guiVars >>

\* solve (lines 335-350), the oracle answering SAT with model m; a model
\* without any variable is falsy (len(model) = 0) and records nothing
SolveSat(m) ==
    /\ pc = "built"
    /\ last_res' = "sat"
    /\ last_model' = m
    /\ assigned_resources' =
          IF SolverVars(solver) # {} THEN extract(step_ids, valid_mapping, step_vars, m)
          ELSE assigned_resources
    /\ pc' = "solved"
    /\ UNCHANGED << cap_list, semantic_hierarchy, rec_data, step_ids, valid_mapping,
                    step_vars, solver, invalid_mapping >>
    /\ UNCHANGED << ancVars, reqVars, modeVars, capsVars, bldVars, guiVars >>

Next ==
    \/ \E cap_file \in CatalogFiles, recipe \in RecipePool : LoadData(cap_file, recipe)
    \/ BuildConstraints
    \/ SolveUnsat
    \/ (pc = "built" /\ \E m \in OptimalModels(solver) : SolveSat(m))

Spec == Init /\ [][Next]_vars

(***************************************************************************)
(* Properties of the build-and-solve cycle (specification Spec)            *)
(***************************************************************************)
SelectedOf(m, sid) == { cid \in Range(Get(valid_mapping, sid, <<>>)) : << sid, cid >> \in m }

\* C1: in every assignment of the selection variables that satisfies all
\* constraints build_constraints added, each step has at most one selection
\* variable set to true.
C1_MutualExclusion ==
    pc = "built" =>
        \A m \in Models(solver) : \A sid \in Range(step_ids) : Cardinality(SelectedOf(m, sid)) <= 1

\* C1 witness: a built, satisfiable model in which some step has two valid capabilities
C1_Witness ==
    /\ pc = "built"
    /\ Models(solver) # {}
    /\ \E sid \in Range(step_ids) : Len(valid_mapping[sid]) >= 2

\* C2: when some step has an empty valid-capability set after the
\* eligibility filter, no assignment satisfies the constraint set, and solve
\* reports UNSAT, whatever the valid sets of the other steps are.
C2_CoverageForcing ==
    LET uncovered == \E sid \in Range(step_ids) : Get(valid_mapping, sid, <<>>) = <<>>
    IN  /\ (pc = "built" /\ uncovered) => Models(solver) = {}
        /\ (pc = "solved" /\ uncovered) => last_res = "unsat"

\* C2 witness: solve has run on a model in which one step has no valid
\* capability while another step has some
C2_Witness ==
    /\ pc = "solved"
    /\ \E sid \in Range(step_ids) : valid_mapping[sid] = <<>>
    /\ \E sid \in Range(step_ids) : valid_mapping[sid] # <<>>

\* C3: after solve returns SAT, assigned_resources maps every step id of the
\* recipe to one capability id, which is in the step's valid list, whose
\* selection variable is true in the returned model, and which is the first
\* capability in valid-list order whose variable is true.
C3_Extraction ==
    (pc = "solved" /\ last_res = "sat") =>
        \A sid \in Range(step_ids) :
            /\ sid \in DOMAIN assigned_resources
            /\ \E i \in DOMAIN valid_mapping[sid] :
                  /\ assigned_resources[sid] = valid_mapping[sid][i]
                  /\ << sid, valid_mapping[sid][i] >> \in last_model
                  /\ \A j \in 1..(i - 1) : << sid, valid_mapping[sid][j] >> \notin last_model

\* C3 witness: a SAT solve in which some step's assignment is not the first
\* capability of its valid list
C3_Witness ==
    /\ pc = "solved" /\ last_res = "sat"
    /\ \E sid \in Range(step_ids) :
          /\ sid \in DOMAIN assigned_resources
          /\ Len(valid_mapping[sid]) >= 2
          /\ assigned_resources[sid] = valid_mapping[sid][2]

\* C4: whenever the most recent solve reported UNSAT, assigned_resources
\* holds no step -> capability entry, in particular none of an earlier SAT solve.
C4_NoAssignmentAfterUnsat ==
    (pc = "solved" /\ last_res = "unsat") => assigned_resources = EmptyDict

\* C5: for the inputs loaded, build_constraints resolves the transport modes
\* and emits the constraint set that a fresh engine resolves and emits for
\* them, whatever was run on the engine before.
C5_CycleIndependent ==
    pc = "built" =>
        \E fresh \in { build_constraints(rec_data, step_ids, cap_list, EmptyDict) } :
            /\ \A i \in DOMAIN rec_data : rec_data[i].transport_mode = fresh.rec_data[i].transport_mode
            /\ solver = fresh.solver

(***************************************************************************)
(* get_all_ancestor_types run one loop iteration at a time                 *)
(* (specifications SpecAnc, FairSpecAnc)                                   *)
(***************************************************************************)
MaxParents == 2

\* A, B, C are declared by some capability entry; U is never declared, so it
\* has no entry in the hierarchy, but may be named as a parent
DeclaredTypes == { "A", "B", "C" }
TypePool == DeclaredTypes \cup { "U" }

RECURSIVE SetToSeq(_)
SetToSeq(S) ==
    IF S = {} THEN <<>>
    ELSE LET x == CHOOSE y \in S : TRUE IN << x >> \o SetToSeq(S \ { x })

ParentLists == { SetToSeq(ps) : ps \in { q \in SUBSET TypePool : Cardinality(q) <= MaxParents } }
HierarchyPool == [DeclaredTypes -> ParentLists]

\* the loop may not run longer than this in the model; the code has no such limit
IterCap == 2 * Cardinality(TypePool) + 2

AncInit ==
    /\ cap_list = <<>> /\ rec_data = <<>> /\ step_ids = <<>> /\ valid_mapping = EmptyDict
    /\ step_vars = {} /\ solver = [constraints |-> <<>>, objective |-> NoObjective]
    /\ assigned_resources = EmptyDict /\ pc = "idle" /\ invalid_mapping = EmptyDict
    /\ last_res = "none" /\ last_model = {}
    /\ semantic_hierarchy \in HierarchyPool
    /\ AncIdle
    /\ ReqIdle
    /\ ModeIdle
    /\ CapsIdle
    /\ BuildIdle
    /\ GuiIdle

\* lines 47-48
AncCall(semantic_type) ==
    /\ anc_pc \in { "off", "done" }
    /\ anc_root' = semantic_type
    /\ ancestors' = { semantic_type }
    /\ to_process' = << semantic_type >>
    /\ anc_adds' = [t \in { semantic_type } |-> 1]
    /\ anc_iters' = 0
    /\ anc_pc' = "loop"
    /\ UNCHANGED << engineVars, reqVars, modeVars, capsVars, bldVars, guiVars >>

\* lines 50-56, one iteration
AncIterate ==
    /\ anc_pc = "loop"
    /\ to_process # <<>>
    /\ anc_iters < IterCap
    /\ \E r \in { anc_iterate(semantic_hierarchy, ancestors, to_process) } :
          /\ ancestors' = r.ancestors
          /\ to_process' = r.to_process
          /\ anc_adds' = [t \in DOMAIN anc_adds \cup Range(r.added) |->
                             Get(anc_adds, t, 0)
                             + Cardinality({ i \in DOMAIN r.added : r.added[i] = t })]
    /\ anc_iters' = anc_iters + 1
    /\ UNCHANGED << anc_root, anc_pc, engineVars, reqVars, modeVars, capsVars, bldVars, guiVars >>

\* line 57: the loop condition fails and the call returns list(ancestors)
AncReturn ==
    /\ anc_pc = "loop"
    /\ to_process = <<>>
    /\ anc_pc' = "done"
    /\ UNCHANGED << anc_root, ancestors, to_process, anc_adds, anc_iters, engineVars, reqVars, modeVars, capsVars, bldVars, guiVars >>

AncNext ==
    \/ \E t \in TypePool : AncCall(t)
    \/ AncIterate
    \/ AncReturn

SpecAnc == AncInit /\ [][AncNext]_vars
\* the call runs to completion once started: nothing suspends the loop
FairSpecAnc == SpecAnc /\ WF_vars(AncIterate) /\ WF_vars(AncReturn)

\* C6: get_all_ancestor_types is reflexive and transitive: the result for T
\* contains T, and if P is in the result for T and G is in the result for P
\* then G is in the result for T; T may have no entry in the hierarchy and
\* types may have several parents.
C6_ReflexiveTransitive ==
    anc_pc = "done" =>
        /\ anc_root \in ancestors
        /\ \A P \in ancestors :
              \A G \in get_all_ancestor_types(semantic_hierarchy, P) : G \in ancestors

\* C6 witness: a finished call whose result holds a grandparent that is not a
\* direct parent of the root, reached through a type with several parents
C6_Witness ==
    /\ anc_pc = "done"
    /\ Len(Get(semantic_hierarchy, anc_root, <<>>)) >= 2
    /\ \E G \in ancestors : /\ G # anc_root
                            /\ G \notin Range(Get(semantic_hierarchy, anc_root, <<>>))

\* C7: get_all_ancestor_types terminates on every hierarchy, cyclic ones
\* included: a started call reaches its return, the loop runs at most once per
\* type, and each type is added to the result and to the worklist at most once.
C7_AddedOnce ==
    /\ \A t \in DOMAIN anc_adds : anc_adds[t] <= 1
    /\ anc_iters <= Cardinality(TypePool)
    /\ Len(to_process) <= Cardinality(TypePool)
C7_Terminates ==
    /\ [] C7_AddedOnce
    /\ (anc_pc = "loop") ~> (anc_pc = "done")

\* a cycle through the root: the root is an ancestor of one of its proper ancestors
CycleThroughRoot ==
    \E P \in ancestors \ { anc_root } :
        anc_root \in get_all_ancestor_types(semantic_hierarchy, P)

\* C7 witness: a call has returned on a hierarchy with a cycle through the
\* root, a self-loop in it, and a type reached along two paths
C7_Witness ==
    /\ anc_pc = "done"
    /\ CycleThroughRoot
    /\ \E t \in ancestors : t \in Range(Get(semantic_hierarchy, t, <<>>))
    /\ \E t \in ancestors :
          Cardinality({ p \in ancestors : t \in Range(Get(semantic_hierarchy, p, <<>>)) }) >= 2

(***************************************************************************)
(* parse_req and the range check on one requirement string                 *)
(* (specifications SpecReq, SpecRange)                                     *)
(***************************************************************************)
MaxReqLen == 4
MaxRangeVal == 4

DigitChar(d) == << "0", "1", "2", "3", "4", "5", "6", "7", "8", "9" >>[d + 1]
\* str(n) for a natural number
RECURSIVE Numeral(_)
Numeral(n) == IF n < 10 THEN << DigitChar(n) >> ELSE Append(Numeral(n \div 10), DigitChar(n % 10))

\* "U+2265" and "U+2264" stand for the single characters GREATER-THAN OR EQUAL
\* TO and LESS-THAN OR EQUAL TO, which are neither '>' followed by '=' nor digits
ReqAlphabet == { "2", "5", ".", "-", ">", "<", "=", " ", "U+2265" }
ReqExamples ==
    { << "U+2265", "5" >>, << "U+2264", "3", ".", "2" >>, << "2", "-", "4" >>, << "7" >>,
      << ">", "=", "5" >>, << "<", "=", "3", ".", "2" >>, << ">", "=", "1", "5", "0" >> }
ReqStrings == SeqsUpTo(ReqAlphabet, MaxReqLen) \cup ReqExamples

ReqInit ==
    /\ EngineInit
    /\ AncIdle
    /\ ModeIdle
    /\ CapsIdle
    /\ BuildIdle
    /\ GuiIdle
    /\ req_pc = "input"
    /\ req_in \in ReqStrings
    /\ req_out = Raised
    /\ rng_cap = << None, None >>
    /\ rng_out = <<>>

RangeVals == { Num(n) : n \in 0..MaxRangeVal }
RangeInit ==
    /\ EngineInit
    /\ AncIdle
    /\ ModeIdle
    /\ CapsIdle
    /\ BuildIdle
    /\ GuiIdle
    /\ req_pc = "input"
    /\ req_in \in { Numeral(n) : n \in 0..MaxRangeVal }
    /\ req_out = Raised
    /\ rng_cap \in (RangeVals \cup { None }) \X (RangeVals \cup { None })
    /\ rng_out = <<>>

\* line 283, first half: lo, hi = self.parse_req(vstr)
ParseReq ==
    /\ req_pc = "input"
    /\ req_out' = parse_req(req_in)
    /\ req_pc' = "parsed"
    /\ UNCHANGED << req_in, rng_cap, rng_out, engineVars, ancVars, modeVars, capsVars, bldVars, guiVars >>

\* lines 284-288 for the parsed requirement
RangeCheck ==
    /\ req_pc = "parsed"
    /\ req_out.ok
    /\ rng_out' = range_reasons("p", req_out.lo, req_out.hi, rng_cap[1], rng_cap[2])
    /\ req_pc' = "checked"
    /\ UNCHANGED << req_in, req_out, rng_cap, engineVars, ancVars, modeVars, capsVars, bldVars, guiVars >>

ReqNext == ParseReq
RangeNext == ParseReq \/ RangeCheck

SpecReq == ReqInit /\ [][ReqNext]_vars
SpecRange == RangeInit /\ [][RangeNext]_vars

\* C9: for an exact-value requirement v and a capability range (lo, hi) the
\* range check reports the parameter feasible (appends no reason) iff
\* lo <= v <= hi, an absent lo counting as minus infinity and an absent hi as
\* plus infinity.
C9_ExactFeasible ==
    req_pc = "checked" =>
        \A v \in 0..MaxRangeVal :
            req_in = Numeral(v) =>
                ( rng_out = <<>>
                  <=> /\ (rng_cap[1] = None \/ rng_cap[1].m <= v)
                      /\ (rng_cap[2] = None \/ v <= rng_cap[2].m) )

\* C9 witness: the boundary case v = hi, with lo < hi, has been checked and
\* found feasible
C9_Witness ==
    /\ req_pc = "checked"
    /\ rng_cap[1] # None /\ rng_cap[2] # None
    /\ rng_cap[1].m < rng_cap[2].m
    /\ req_in = Numeral(rng_cap[2].m)
    /\ rng_out = <<>>

SampleVal == { 2, 5, 7, 22, 25, 52, 55 }
EligBounds == { None, Num(20), Num(100) }
EligTempProps ==
    { <<>> } \cup { << Prop("temp", lo, hi) >> : lo \in EligBounds, hi \in EligBounds }
EligSpeedProps == { <<>>, << Prop("speed", None, Num(5)) >> }
EligEntries ==
    { [capability_name |-> "Heat", capability_ID |-> << "cap", "#", "HeatingOfLiquids" >>,
       generalized_by |-> gen, properties |-> tp \o sp]
      : gen \in { <<>>, << "HeatingProcess" >> }, tp \in EligTempProps, sp \in EligSpeedProps }
EligFirstEntries ==
    { DoseEntry, HeatEntry(100),
      [capability_name |-> "Warm", capability_ID |-> << "HeatingProcess" >>,
       generalized_by |-> <<>>,
       properties |-> << Prop("temp", Num(20), Num(100)), Prop("speed", Num(5), None) >>] }
EligCatalogs ==
    { << [res |-> "R1", entries |-> << e1 >>], [res |-> "R2", entries |-> << e2 >>] >>
      : e1 \in EligFirstEntries, e2 \in EligEntries }

EligTempReqs ==
    { <<>> } \cup
    { << Param("temp", v) >> : v \in { << "2", "0" >>, << ">", "=", "1", "0", "0" >>,
                                        << ">", "=", "1", "5", "0" >>, << "<", "=", "1", "0" >>,
                                        << "5", "0", "-", "1", "5", "0" >> } }
EligSpeedReqs == { <<>>, << Param("speed", << "5" >>) >>, << Param("speed", << "9" >>) >> }
EligSteps ==
    { [ID |-> << "S", "1" >>, SemanticDescription |-> d, Parameters |-> tr \o sr,
       transport_mode |-> Untagged]
      : d \in { << "proc", "#", "HeatingProcess" >>, << "proc", "#", "heatingprocess" >>,
                << "Dosing" >> },
        tr \in EligTempReqs, sr \in EligSpeedReqs }

EligInit ==
    /\ \E c \in EligCatalogs :
          \E bc \in { build_capabilities(c) } :
              /\ cap_list = bc.cap_list
              /\ semantic_hierarchy = bc.semantic_hierarchy
    /\ \E step \in EligSteps :
          /\ rec_data = << step >>
          /\ step_ids = << step.ID >>
    /\ valid_mapping = EmptyDict
    /\ step_vars = {}
    /\ solver = [constraints |-> <<>>, objective |-> NoObjective]
    /\ assigned_resources = EmptyDict
    /\ pc = "loaded"
    /\ invalid_mapping = EmptyDict
    /\ last_res = "none"
    /\ last_model = {}
    /\ AncIdle
    /\ ReqIdle
    /\ ModeIdle
    /\ CapsIdle
    /\ BuildIdle
    /\ GuiIdle

EligNext ==
    \/ BuildConstraints
    \/ SolveUnsat
    \/ (pc = "built" /\ \E m \in OptimalModels(solver) : SolveSat(m))

SpecElig == EligInit /\ [][EligNext]_vars

\* the three conditions of C8 for step and capability record cap
TypeCompatible(step, cap) ==
    \E t \in cap.all_semantic_types : Lower(t) = Lower(step_semantic_of(step))
ParamsCovered(step, cap) ==
    \A i \in DOMAIN step.Parameters : step.Parameters[i].Key \in DOMAIN cap.props
RangesFeasible(step, cap) ==
    \A i \in DOMAIN step.Parameters :
        LET req  == parse_req(step.Parameters[i].ValueString)
            c_lo == cap.props[step.Parameters[i].Key][1]
            c_hi == cap.props[step.Parameters[i].Key][2]
        IN  /\ ~(req.lo # None /\ c_hi # None /\ Lt(c_hi, req.lo))
            /\ ~(req.hi # None /\ c_lo # None /\ Lt(req.hi, c_lo))

\* C8: build_constraints puts a capability in a step's valid set iff (1) the
\* step's semantic type, compared case-insensitively, is in the capability's
\* ancestor-type set, (2) every parameter key of the step is a key of the
\* capability's range map, and (3) for no required parameter is the
\* capability's high bound below the requirement's low bound or its low bound
\* above the requirement's high bound, a comparison being skipped when either
\* bound involved is absent.
C8_ValidIff ==
    pc = "built" =>
        \A i \in DOMAIN rec_data : \A j \in DOMAIN cap_list :
            ( cap_list[j].id \in Range(valid_mapping[rec_data[i].ID])
              <=> /\ TypeCompatible(rec_data[i], cap_list[j])
                  /\ ParamsCovered(rec_data[i], cap_list[j])
                  /\ RangesFeasible(rec_data[i], cap_list[j]) )

\* C8 witness: a capability is valid for a step whose type matches only when
\* case is ignored, with two required parameters, one of them at the boundary
\* of the capability's range
C8_Witness ==
    /\ pc = "built"
    /\ \E j \in DOMAIN cap_list :
          /\ cap_list[j].id \in Range(valid_mapping[rec_data[1].ID])
          /\ step_semantic_of(rec_data[1]) \notin cap_list[j].all_semantic_types
          /\ Len(rec_data[1].Parameters) = 2
          /\ rec_data[1].Parameters[1].ValueString = << ">", "=", "1", "0", "0" >>
          /\ cap_list[j].props["temp"][2] = Num(100)

(***************************************************************************)
(* determine_transport_mode applied to one step of a three-step recipe     *)
(* (specification SpecMode): the step, its position and the assignments    *)
(* of an earlier solve are drawn from the pools below.                     *)
(***************************************************************************)
ModeTypes ==
    { << "proc", "#", "Dosing" >>, << "Conveying" >>, << "proc", "#", "HeatingProcess" >> }
ModeParamPool ==
    { <<>>,
      << Param("Mode", << "F", "e", "e", "d", " " >>) >>,
      << Param("mode", << "d", "i", "s", "c", "h", "a", "r", "g", "e" >>) >>,
      << Param("mode", << "f", "a", "s", "t" >>) >> }
ModeStems == { "S", "Feed", "outlet", "move" }
ModeHintPool ==
    { <<>>, << Param("FeedRate", << "5" >>) >>, << Param("dischargerate", << "5" >>) >>,
      << Param("transfer_time", << "5" >>) >> }
ModeSteps(idx) ==
    { [ID |-> << stem, IndexToken(idx) >>, SemanticDescription |-> d,
       Parameters |-> mp \o hp, transport_mode |-> Untagged]
      : stem \in ModeStems, d \in ModeTypes, mp \in ModeParamPool, hp \in ModeHintPool }
ModeIds(step, idx) == [i \in 1..3 |-> IF i = idx THEN step.ID ELSE << "S", IndexToken(i) >>]
\* what solve can have left in assigned_resources for the three step ids
ModeAssignedPool(ids) ==
    { a \in UNION { [D -> { CapId("R1", "Dosing"), CapId("R2", "Dosing") }]
                    : D \in SUBSET Range(ids) } : TRUE }

ModeInit ==
    /\ EngineInit
    /\ AncIdle
    /\ ReqIdle
    /\ CapsIdle
    /\ BuildIdle
    /\ GuiIdle
    /\ mode_pc = "input"
    /\ mode_out = NoMode
    /\ \E idx \in 1..3 : \E step \in ModeSteps(idx) :
          \E assigned \in ModeAssignedPool(ModeIds(step, idx)) :
              mode_in = [step |-> step, step_idx |-> idx, ids |-> ModeIds(step, idx),
                         assigned |-> assigned]

DetermineTransportMode ==
    /\ mode_pc = "input"
    /\ mode_out' = determine_transport_mode(mode_in.step, mode_in.step_idx,
                                            mode_in.ids, mode_in.assigned)
    /\ mode_pc' = "returned"
    /\ UNCHANGED << mode_in, engineVars, ancVars, reqVars, capsVars, bldVars, guiVars >>

ModeNext == DetermineTransportMode

SpecMode == ModeInit /\ [][ModeNext]_vars

\* the input of the call, described by how it was drawn
ModeInterior == mode_in.step_idx = 2
ModeTransportType ==
    mode_in.step.SemanticDescription \in { << "proc", "#", "Dosing" >>, << "Conveying" >> }
ModeExplicit ==
    LET ps == mode_in.step.Parameters
    IN  IF ps # <<>> /\ ps[1] = Param("Mode", << "F", "e", "e", "d", " " >>) THEN "feed"
        ELSE IF ps # <<>> /\ ps[1] = Param("mode", << "d", "i", "s", "c", "h", "a", "r", "g", "e" >>)
        THEN "discharge"
        ELSE NoMode
ModeIdHint ==
    LET stem == mode_in.step.ID[1]
    IN  CASE stem = "Feed" -> "feed" [] stem = "outlet" -> "discharge"
          [] stem = "move" -> "transfer" [] OTHER -> NoMode
ModeKeyHint ==
    LET keys == { mode_in.step.Parameters[i].Key : i \in DOMAIN mode_in.step.Parameters }
    IN  IF "FeedRate" \in keys THEN "feed"
        ELSE IF "dischargerate" \in keys THEN "discharge"
        ELSE IF "transfer_time" \in keys THEN "transfer"
        ELSE NoMode
ModeNoHint == ModeExplicit = NoMode /\ ModeIdHint = NoMode /\ ModeKeyHint = NoMode

\* C12: an interior step of a transport type with no valid explicit mode, no
\* hint in its identifier and no hint parameter key resolves to transfer when
\* assigned_resources holds nothing of an earlier solve.
C12_DefaultTransfer ==
    ( /\ mode_pc = "returned" /\ ModeInterior /\ ModeTransportType /\ ModeNoHint
      /\ mode_in.assigned = EmptyDict )
    => mode_out = "transfer"

\* C12 witness: such a call has returned, for a step that does carry a mode
\* parameter, one whose value is not a mode
C12_Witness ==
    /\ mode_pc = "returned" /\ ModeInterior /\ ModeTransportType /\ ModeNoHint
    /\ mode_in.assigned = EmptyDict
    /\ mode_in.step.Parameters = << Param("mode", << "f", "a", "s", "t" >>) >>
    /\ mode_out = "transfer"

\* C18: for an interior transport step the result is that of the first rule,
\* in the order explicit mode parameter, identifier hint, parameter-key hint,
\* that yields a mode: a valid explicit mode wins over every hint, an
\* identifier hint wins over a parameter-key hint, and a mode parameter whose
\* value is not feed, discharge or transfer is passed over; when none of the
\* three yields a mode the result is still one of the three modes.
C18_RuleOrder ==
    ( mode_pc = "returned" /\ ModeInterior /\ ModeTransportType )
    => /\ ModeExplicit # NoMode => mode_out = ModeExplicit
       /\ (ModeExplicit = NoMode /\ ModeIdHint # NoMode) => mode_out = ModeIdHint
       /\ (ModeExplicit = NoMode /\ ModeIdHint = NoMode /\ ModeKeyHint # NoMode)
              => mode_out = ModeKeyHint
       /\ mode_out \in { "feed", "discharge", "transfer" }

\* C18 witness: a valid explicit mode has won over an identifier hint and a
\* parameter-key hint that both name other modes
C18_Witness ==
    /\ mode_pc = "returned" /\ ModeInterior /\ ModeTransportType
    /\ ModeExplicit = "discharge" /\ ModeIdHint = "feed" /\ ModeKeyHint = "transfer"
    /\ mode_out = "discharge"

\* the resource an earlier solve assigned to the step at position i, <<>> if none
ModeResource(i) ==
    IF mode_in.ids[i] \in DOMAIN mode_in.assigned
    THEN << mode_in.assigned[mode_in.ids[i]][1] >>
    ELSE <<>>

\* C19: when rules 1-3 yield nothing for an interior transport step and an
\* earlier solve assigned the step, its predecessor and its successor, the
\* result is feed if the step's resource differs from the predecessor's and
\* equals the successor's, discharge if it equals the predecessor's and
\* differs from the successor's, transfer if it differs from both; when one
\* of the three assignments is missing the result is the default transfer.
C19_ContinuityInference ==
    ( mode_pc = "returned" /\ ModeInterior /\ ModeTransportType /\ ModeNoHint )
    => LET prev == ModeResource(1)
           cur  == ModeResource(2)
           next == ModeResource(3)
       IN  IF prev # <<>> /\ cur # <<>> /\ next # <<>>
           THEN /\ (cur # prev /\ cur = next) => mode_out = "feed"
                /\ (cur = prev /\ cur # next) => mode_out = "discharge"
                /\ (cur # prev /\ cur # next) => mode_out = "transfer"
           ELSE mode_out = "transfer"

\* C19 witness: the rule has answered discharge from the three assignments
C19_Witness ==
    /\ mode_pc = "returned" /\ ModeInterior /\ ModeTransportType /\ ModeNoHint
    /\ ModeResource(1) = << "R1" >> /\ ModeResource(2) = << "R1" >>
    /\ ModeResource(3) = << "R2" >>
    /\ mode_out = "discharge"

(***************************************************************************)
(* One run of load_data, build_constraints and solve on a fresh engine,    *)
(* over recipes with transport steps, hints and a malformed requirement    *)
(* (specification SpecFlow).                                               *)
(***************************************************************************)
ScenarioHeatEntry ==
    [capability_name |-> "Heat", capability_ID |-> << "cap", "#", "HeatingProcess" >>,
     generalized_by |-> <<>>,
     properties |-> << Prop("temp", Num(20), Num(100)) >>]
FlowCatalogs ==
    CatalogPool \cup { << [res |-> "R1", entries |-> << ScenarioHeatEntry >>] >> }

FlowTemplates ==
    { [stem |-> "S", SemanticDescription |-> << "proc", "#", "heatingprocess" >>,
       Parameters |-> << Param("temp", << ">", "=", "1", "5", "0" >>) >>],
      [stem |-> "S", SemanticDescription |-> << "HeatingProcess" >>,
       Parameters |-> << Param("temp", << "5", "0" >>) >>],
      [stem |-> "S", SemanticDescription |-> << "proc", "#", "heatingprocess" >>,
       Parameters |-> << Param("temp", << "-", "5" >>) >>],
      [stem |-> "S", SemanticDescription |-> << "proc", "#", "Dosing" >>,
       Parameters |-> <<>>],
      [stem |-> "Feed", SemanticDescription |-> << "proc", "#", "Dosing" >>,
       Parameters |-> <<>>],
      [stem |-> "outlet", SemanticDescription |-> << "proc", "#", "Dosing" >>,
       Parameters |-> <<>>],
      [stem |-> "S", SemanticDescription |-> << "proc", "#", "Dosing" >>,
       Parameters |-> << Param("mode", << "f", "e", "e", "d" >>) >>] }
FlowRecipes ==
    { [i \in DOMAIN ts |-> StepOf(ts[i], i)] : ts \in SeqsUpTo(FlowTemplates, MaxSteps) }

FlowInit ==
    /\ \E c \in FlowCatalogs :
          \E bc \in { build_capabilities(c) } :
              /\ cap_list = bc.cap_list
              /\ semantic_hierarchy = bc.semantic_hierarchy
    /\ \E recipe \in FlowRecipes :
          /\ rec_data = recipe
          /\ step_ids = [i \in DOMAIN recipe |-> recipe[i].ID]
    /\ valid_mapping = EmptyDict
    /\ step_vars = {}
    /\ solver = [constraints |-> <<>>, objective |-> NoObjective]
    /\ assigned_resources = EmptyDict
    /\ pc = "loaded"
    /\ invalid_mapping = EmptyDict
    /\ last_res = "none"
    /\ last_model = {}
    /\ AncIdle
    /\ ReqIdle
    /\ ModeIdle
    /\ CapsIdle
    /\ BuildIdle
    /\ GuiIdle

FlowNext ==
    \/ BuildConstraints
    \/ SolveUnsat
    \/ (pc = "built" /\ \E m \in OptimalModels(solver) : SolveSat(m))

SpecFlow == FlowInit /\ [][FlowNext]_vars

\* C11: a malformed requirement string on a step parameter never makes
\* build_constraints raise to its caller; model building completes, every
\* step of the recipe getting its valid list.
C11_NeverRaises ==
    /\ pc # "failed"
    /\ pc \in { "built", "solved" } => \A i \in DOMAIN step_ids : step_ids[i] \in DOMAIN valid_mapping

\* the step at position i is a transport step whose identifier or mode
\* parameter declares it as feed
DeclaredFeed(i) ==
    /\ rec_data[i].SemanticDescription = << "proc", "#", "Dosing" >>
    /\ \/ rec_data[i].ID[1] = "Feed"
       \/ rec_data[i].Parameters = << Param("mode", << "f", "e", "e", "d" >>) >>
ValidOn(i, resource) ==
    { cid \in Range(valid_mapping[step_ids[i]]) : cid[1] = resource }
\* in every model, a capability of step b on a resource is selected only if
\* step a selects a valid capability on that resource
FollowsResource(a, b) ==
    \A m \in Models(solver) : \A cid \in Range(valid_mapping[step_ids[b]]) :
        << step_ids[b], cid >> \in m
            => \E pcid \in ValidOn(a, cid[1]) : << step_ids[a], pcid >> \in m

\* C13 as stated, for the two-step recipe [A, B] with B declared as feed:
\* every valid capability of B on a resource R can be selected only if A
\* selects a valid capability on R.
C13_AsWritten ==
    (pc = "built" /\ Len(step_ids) = 2 /\ DeclaredFeed(2)) => FollowsResource(1, 2)

\* C13: in the three-step recipe [A, B, C] with the interior step B declared
\* as feed, B is tagged feed and, in the built model, every valid capability
\* of B on a resource R can be selected only if A selects a valid capability
\* on R; it is forced false when A has no valid capability on R.
C13_FeedContinuity ==
    (pc = "built" /\ Len(step_ids) = 3 /\ DeclaredFeed(2))
    => /\ rec_data[2].transport_mode = "feed"
       /\ FollowsResource(1, 2)
       /\ \A cid \in Range(valid_mapping[step_ids[2]]) :
              ValidOn(1, cid[1]) = {} => \A m \in Models(solver) : << step_ids[2], cid >> \notin m

\* C13 witness: a satisfiable built model of such a recipe in which one
\* capability of B is forced false and another is selectable
C13_Witness ==
    /\ pc = "built" /\ Len(step_ids) = 3 /\ DeclaredFeed(2)
    /\ \E cid \in Range(valid_mapping[step_ids[2]]) : ValidOn(1, cid[1]) = {}
    /\ \E m \in Models(solver) : \E cid \in Range(valid_mapping[step_ids[2]]) :
          << step_ids[2], cid >> \in m

\* the continuity constraints whose antecedent (Implies) or subject (Not) is a
\* variable of step sid
ContinuityOf(sid) ==
    { i \in DOMAIN solver.constraints :
        \/ solver.constraints[i].kind = "Implies" /\ solver.constraints[i].ante[1][1] = sid
        \/ solver.constraints[i].kind = "Not" /\ solver.constraints[i].vars[1][1] = sid }

\* C14: after build_constraints the first step, the last step and every step
\* whose semantic type is not a transport type carry the mode tag none and
\* no continuity constraint has one of their variables as antecedent,
\* whatever their identifier, parameters or explicit mode parameter say;
\* a step that carries a mode or such a constraint is an interior transport step.
C14_OnlyInteriorTransport ==
    pc = "built" =>
        \A i \in DOMAIN rec_data :
            ( i = 1 \/ i = Len(rec_data)
              \/ rec_data[i].SemanticDescription # << "proc", "#", "Dosing" >> )
            => /\ rec_data[i].transport_mode = NoMode
               /\ ContinuityOf(rec_data[i].ID) = {}

\* C14 witness: a built model whose first step has a feed hint in its
\* identifier and valid capabilities, whose last step carries an explicit
\* mode parameter, and whose interior step did get continuity constraints
C14_Witness ==
    /\ pc = "built" /\ Len(rec_data) = 3
    /\ rec_data[1].ID[1] = "Feed" /\ valid_mapping[step_ids[1]] # <<>>
    /\ rec_data[3].Parameters = << Param("mode", << "f", "e", "e", "d" >>) >>
    /\ ContinuityOf(rec_data[2].ID) # {}

\* C20: for every interior transport step resolved to feed and every
\* satisfying assignment of the built model, the capability selected for the
\* step and the one selected for the step before it are on the same
\* resource, so a valid capability whose resource has no valid capability in
\* the step before is never selected; the assignment solve records obeys it.
C20_FeedSameResource ==
    /\ pc = "built" =>
          \A i \in DOMAIN rec_data :
              rec_data[i].transport_mode = "feed"
              => /\ i > 1
                 /\ \A m \in Models(solver) :
                        \A cid \in SelectedOf(m, step_ids[i]) :
                            /\ ValidOn(i - 1, cid[1]) # {}
                            /\ \A pcid \in SelectedOf(m, step_ids[i - 1]) : pcid[1] = cid[1]
    /\ (pc = "solved" /\ last_res = "sat") =>
          \A i \in DOMAIN rec_data :
              rec_data[i].transport_mode = "feed"
              => assigned_resources[step_ids[i]][1] = assigned_resources[step_ids[i - 1]][1]

\* C20 witness: a SAT solve of a recipe with a feed step that had a valid
\* capability on a resource the step before could not use
C20_Witness ==
    /\ pc = "solved" /\ last_res = "sat"
    /\ \E i \in DOMAIN rec_data :
          /\ rec_data[i].transport_mode = "feed"
          /\ \E cid \in Range(valid_mapping[step_ids[i]]) : ValidOn(i - 1, cid[1]) = {}

\* the scenario's inputs: one resource R1 offering Heat of semantic type
\* HeatingProcess with temp in [20, 100], and the one-step recipe S1 of type
\* HeatingProcess with temp = "50"
ScenarioLoaded ==
    /\ Len(cap_list) = 1
    /\ cap_list[1].id = << "R1", "::", "Heat" >>
    /\ cap_list[1].semantic_type = "HeatingProcess"
    /\ cap_list[1].props = [temp |-> << Num(20), Num(100) >>]
    /\ Len(rec_data) = 1
    /\ rec_data[1].ID = << "S", "1" >>
    /\ rec_data[1].SemanticDescription = << "HeatingProcess" >>
    /\ rec_data[1].Parameters = << Param("temp", << "5", "0" >>) >>

\* C15: on the scenario's inputs build_constraints yields the valid set
\* {R1::Heat} for S1, solve returns SAT, and the assignment is S1 -> R1::Heat.
C15_Scenario ==
    ScenarioLoaded =>
        /\ pc # "failed"
        /\ pc \in { "built", "solved" } =>
              /\ valid_mapping = [sid \in { << "S", "1" >> } |-> << << "R1", "::", "Heat" >> >>]
              /\ Models(solver) # {}
        /\ pc = "solved" =>
              /\ last_res = "sat"
              /\ assigned_resources = [sid \in { << "S", "1" >> } |-> << "R1", "::", "Heat" >>]

\* C15 witness: solve has returned on the scenario's inputs
C15_Witness == ScenarioLoaded /\ pc = "solved" /\ last_res = "sat"

\* C16: after build_constraints, for every step the valid list and the keys
\* of the invalid mapping are disjoint and together hold every capability of
\* the catalogue exactly once; every invalid entry carries at least one
\* rejection reason, and a valid capability has no entry of reasons.
C16_ValidInvalidPartition ==
    pc = "built" =>
        \A s \in DOMAIN step_ids :
            LET valid   == valid_mapping[step_ids[s]]
                invalid == invalid_mapping[step_ids[s]]
            IN  /\ Range(valid) \cap DOMAIN invalid = {}
                /\ Range(valid) \cup DOMAIN invalid = { cap_list[j].id : j \in DOMAIN cap_list }
                /\ Len(valid) + Cardinality(DOMAIN invalid) = Len(cap_list)
                /\ \A cid \in DOMAIN invalid : Len(invalid[cid]) >= 1

\* C16 witness: a built model in which one step has a valid capability, one
\* rejected by the range check and one rejected for its type
C16_Witness ==
    /\ pc = "built"
    /\ \E s \in DOMAIN step_ids :
          /\ valid_mapping[step_ids[s]] # <<>>
          /\ \E c1, c2 \in DOMAIN invalid_mapping[step_ids[s]] :
                /\ invalid_mapping[step_ids[s]][c1][1].kind = "max_below_demand"
                /\ invalid_mapping[step_ids[s]][c2][1].kind = "type_mismatch"

\* C17: after every build_constraints call, also a rebuild after earlier
\* runs on other inputs, the selection variables are exactly the pairs
\* (step id, capability id) with the capability in the step's current valid
\* list, the valid mapping has exactly the current recipe's step ids as keys,
\* and the solver's constraints and objective speak of these variables only.
C17_VarsMatchValid ==
    pc \in { "built", "solved" } =>
        /\ DOMAIN valid_mapping = Range(step_ids)
        /\ step_vars = UNION { { << sid, cid >> : cid \in Range(valid_mapping[sid]) }
                                : sid \in Range(step_ids) }
        /\ SolverVars(solver) = step_vars

\* C17 witness: a rebuild after a SAT solve of a longer recipe on a larger
\* catalogue, so that variables of the earlier run would show if kept
C17_Witness ==
    /\ pc = "built"
    /\ assigned_resources # EmptyDict
    /\ Cardinality(DOMAIN assigned_resources) > Len(step_ids)
    /\ \E sid \in DOMAIN assigned_resources :
          assigned_resources[sid] \notin { cap_list[j].id : j \in DOMAIN cap_list }
    /\ step_vars # {}

\* C21: for every interior transport step resolved to discharge and every
\* satisfying assignment of the built model, the capability selected for the
\* step and the one selected for the step after it are on the same resource,
\* so a valid capability whose resource has no valid capability in the step
\* after is never selected; the assignment solve records obeys it.
C21_DischargeSameResource ==
    /\ pc = "built" =>
          \A i \in DOMAIN rec_data :
              rec_data[i].transport_mode = "discharge"
              => /\ i < Len(rec_data)
                 /\ \A m \in Models(solver) :
                        \A cid \in SelectedOf(m, step_ids[i]) :
                            /\ ValidOn(i + 1, cid[1]) # {}
                            /\ \A ncid \in SelectedOf(m, step_ids[i + 1]) : ncid[1] = cid[1]
    /\ (pc = "solved" /\ last_res = "sat") =>
          \A i \in DOMAIN rec_data :
              rec_data[i].transport_mode = "discharge"
              => assigned_resources[step_ids[i]][1] = assigned_resources[step_ids[i + 1]][1]

\* C21 witness: a SAT solve of a recipe with a discharge step that had a
\* valid capability on a resource the step after could not use
C21_Witness ==
    /\ pc = "solved" /\ last_res = "sat"
    /\ \E i \in DOMAIN rec_data :
          /\ rec_data[i].transport_mode = "discharge"
          /\ \E cid \in Range(valid_mapping[step_ids[i]]) : ValidOn(i + 1, cid[1]) = {}

ValidOff(i, resource) ==
    { cid \in Range(valid_mapping[step_ids[i]]) : cid[1] # resource }

\* C22: for every interior transport step resolved to transfer and every
\* satisfying assignment of the built model, the resource of the capability
\* selected for the step differs from the resource selected for the step
\* before and from the one selected for the step after; a capability of the
\* transfer step is never selected when a neighbour has no valid capability
\* on another resource; the assignment solve records obeys it.
C22_TransferOtherResource ==
    /\ pc = "built" =>
          \A i \in DOMAIN rec_data :
              rec_data[i].transport_mode = "transfer"
              => /\ 1 < i /\ i < Len(rec_data)
                 /\ \A m \in Models(solver) :
                        \A cid \in SelectedOf(m, step_ids[i]) :
                            /\ ValidOff(i - 1, cid[1]) # {} /\ ValidOff(i + 1, cid[1]) # {}
                            /\ \A o \in SelectedOf(m, step_ids[i - 1]) : o[1] # cid[1]
                            /\ \A o \in SelectedOf(m, step_ids[i + 1]) : o[1] # cid[1]
    /\ (pc = "solved" /\ last_res = "sat") =>
          \A i \in DOMAIN rec_data :
              rec_data[i].transport_mode = "transfer"
              => /\ assigned_resources[step_ids[i]][1] # assigned_resources[step_ids[i - 1]][1]
                 /\ assigned_resources[step_ids[i]][1] # assigned_resources[step_ids[i + 1]][1]

\* C22 witness: a SAT solve of a recipe with a transfer step one of whose
\* valid capabilities was barred because the step after has nothing elsewhere
C22_Witness ==
    /\ pc = "solved" /\ last_res = "sat"
    /\ \E i \in DOMAIN rec_data :
          /\ rec_data[i].transport_mode = "transfer"
          /\ \E cid \in Range(valid_mapping[step_ids[i]]) :
                ValidOff(i + 1, cid[1]) = {} /\ ValidOff(i - 1, cid[1]) # {}

(***************************************************************************)
(* build_capabilities applied to one catalogue of two resources with one   *)
(* entry each (specification SpecCaps): load_data with a recipe that has   *)
(* no steps.                                                               *)
(***************************************************************************)
CapsProperties ==
    { [property_ID |-> pid, valueMin |-> vmin, value0 |-> v0, valueMax |-> vmax, value1 |-> v1]
      : pid \in { "temp", "" },
        vmin \in { None, Num(0), Num(5) }, v0 \in { None, Num(0), Num(3) },
        vmax \in { None, Num(0), Num(9) }, v1 \in { None, Num(7) } }
CapsParents == { <<>>, << "HeatingProcess" >>, << "Thermal" >> }
CapsFirstEntries ==
    { [capability_name |-> "Heat", capability_ID |-> << "cap", "#", "HeatingOfLiquids" >>,
       generalized_by |-> gen, properties |-> << p >>]
      : gen \in CapsParents, p \in CapsProperties }
CapsSecondEntries ==
    { [capability_name |-> "Warm", capability_ID |-> << "cap", "#", ty >>,
       generalized_by |-> gen, properties |-> <<>>]
      : ty \in { "HeatingOfLiquids", "Cooling" }, gen \in CapsParents }
CapsCatalogs ==
    { << [res |-> "R1", entries |-> << e1 >>], [res |-> "R2", entries |-> << e2 >>] >>
      : e1 \in CapsFirstEntries, e2 \in CapsSecondEntries }

CapsInit ==
    /\ EngineInit
    /\ AncIdle
    /\ ReqIdle
    /\ ModeIdle
    /\ BuildIdle
    /\ GuiIdle
    /\ caps_in \in CapsCatalogs

BuildCapabilities ==
    /\ pc = "idle"
    /\ caps_in # <<>>
    /\ \E b \in { build_capabilities(caps_in) } :
          /\ cap_list' = b.cap_list
          /\ semantic_hierarchy' = b.semantic_hierarchy
    /\ pc' = "loaded"
    /\ UNCHANGED << rec_data, step_ids, valid_mapping, step_vars, solver,
                    assigned_resources, invalid_mapping, last_res, last_model >>
    /\ UNCHANGED << ancVars, reqVars, modeVars, capsVars, bldVars, guiVars >>

CapsNext == BuildCapabilities

SpecCaps == CapsInit /\ [][CapsNext]_vars

\* the property of the first entry of the catalogue
CapsProperty == caps_in[1].entries[1].properties[1]

\* C23: every property with an identifier gets a range whose low bound is
\* valueMin whenever valueMin is present, 0 included, and value0 otherwise,
\* and whose high bound is valueMax whenever valueMax is present, 0
\* included, and value1 otherwise.
C23_BoundsAsDeclared ==
    (pc = "loaded" /\ caps_in # <<>> /\ CapsProperty.property_ID # "")
    => /\ CapsProperty.property_ID \in DOMAIN cap_list[1].props
       /\ cap_list[1].props[CapsProperty.property_ID][1] =
              (IF CapsProperty.valueMin # None THEN CapsProperty.valueMin
               ELSE CapsProperty.value0)
       /\ cap_list[1].props[CapsProperty.property_ID][2] =
              (IF CapsProperty.valueMax # None THEN CapsProperty.valueMax
               ELSE CapsProperty.value1)

\* C24: when the two entries declare the same semantic type with different
\* generalization lists, the hierarchy holds the list of the second entry,
\* and the ancestor-type set of both capabilities, the first entry's
\* included, is the closure computed from that list.
C24_LastDeclarationWins ==
    ( /\ pc = "loaded" /\ caps_in # <<>>
      /\ caps_in[2].entries[1].capability_ID = caps_in[1].entries[1].capability_ID
      /\ caps_in[2].entries[1].generalized_by # caps_in[1].entries[1].generalized_by )
    => /\ semantic_hierarchy["HeatingOfLiquids"] = caps_in[2].entries[1].generalized_by
       /\ \A j \in 1..2 :
              cap_list[j].all_semantic_types
                  = { "HeatingOfLiquids" } \cup Range(caps_in[2].entries[1].generalized_by)

\* C24 witness: the first entry names a parent that the second entry's list
\* replaces, and the first capability's ancestor set lacks that parent
C24_Witness ==
    /\ pc = "loaded" /\ caps_in # <<>>
    /\ caps_in[2].entries[1].capability_ID = caps_in[1].entries[1].capability_ID
    /\ caps_in[1].entries[1].generalized_by = << "HeatingProcess" >>
    /\ caps_in[2].entries[1].generalized_by = << "Thermal" >>
    /\ cap_list[1].all_semantic_types = { "HeatingOfLiquids", "Thermal" }

\* the reasons the range check owes capability record cap for step: one per
\* violated bound, parameter by parameter
RECURSIVE OwedRangeReasons(_, _, _)
OwedRangeReasons(step, cap, i) ==
    IF i > Len(step.Parameters) THEN <<>>
    ELSE LET k    == step.Parameters[i].Key
             req  == parse_req(step.Parameters[i].ValueString)
             c_lo == cap.props[k][1]
             c_hi == cap.props[k][2]
         IN  (IF req.lo # None /\ c_hi # None /\ Lt(c_hi, req.lo)
              THEN << [kind |-> "max_below_demand", key |-> k] >> ELSE <<>>)
             \o (IF req.hi # None /\ c_lo # None /\ Lt(req.hi, c_lo)
                 THEN << [kind |-> "min_above_demand", key |-> k] >> ELSE <<>>)
             \o OwedRangeReasons(step, cap, i + 1)
KindsAndKeys(reasons) == [i \in DOMAIN reasons |-> [kind |-> reasons[i].kind, key |-> reasons[i].key]]

\* C25: the reasons recorded for an invalid capability follow the ordered
\* checks: failing the semantic check gives exactly one type-mismatch reason
\* and nothing else; passing it but lacking parameters gives exactly one
\* reason per missing parameter key and no range reason; passing both gives
\* one reason per violated bound, collected over all required parameters.
C25_ReasonsFollowChecks ==
    pc = "built" =>
        \A j \in DOMAIN cap_list :
            LET step    == rec_data[1]
                cap     == cap_list[j]
                invalid == invalid_mapping[step.ID]
                missing == SelectSeq([i \in DOMAIN step.Parameters |-> step.Parameters[i].Key],
                                     LAMBDA k : k \notin DOMAIN cap.props)
            IN  cap.id \in DOMAIN invalid =>
                    IF ~TypeCompatible(step, cap)
                    THEN /\ Len(invalid[cap.id]) = 1
                         /\ invalid[cap.id][1].kind = "type_mismatch"
                    ELSE IF ~ParamsCovered(step, cap)
                    THEN KindsAndKeys(invalid[cap.id])
                             = [i \in DOMAIN missing |-> [kind |-> "missing", key |-> missing[i]]]
                    ELSE KindsAndKeys(invalid[cap.id]) = OwedRangeReasons(step, cap, 1)

\* C25 witness: one capability rejected with a range reason for each of two
\* parameters, another rejected with a missing-parameter reason alone
C25_Witness ==
    /\ pc = "built"
    /\ \E c1, c2 \in DOMAIN invalid_mapping[rec_data[1].ID] :
          /\ KindsAndKeys(invalid_mapping[rec_data[1].ID][c1])
                 = << [kind |-> "max_below_demand", key |-> "temp"],
                      [kind |-> "max_below_demand", key |-> "speed"] >>
          /\ KindsAndKeys(invalid_mapping[rec_data[1].ID][c2])
                 = << [kind |-> "missing", key |-> "speed"] >>


(***************************************************************************)
(* build_constraints one loop iteration at a time (src/02.07.py:237-333):  *)
(* specification SpecBuild.  Every action applies the operators of the     *)
(* atomic build_constraints to the one step its loop is at.                *)
(***************************************************************************)
\* lines 239-242: a fresh solver, cleared maps
BuildBegin ==
    /\ pc = "loaded" /\ build_phase = "idle"
    /\ solver' = [constraints |-> <<>>, objective |-> NoObjective]
    /\ step_vars' = {}
    /\ valid_mapping' = EmptyDict
    /\ build_invalid' = EmptyDict
    /\ build_phase' = "reset"
    /\ build_i' = 0
    /\ pc' = "building"
    /\ UNCHANGED << cap_list, semantic_hierarchy, rec_data, step_ids, assigned_resources,
                    invalid_mapping, last_res, last_model >>
    /\ UNCHANGED << ancVars, reqVars, modeVars, capsVars, guiVars >>

\* lines 245-252: the first loop tags every step
BuildTag ==
    /\ pc = "building" /\ build_phase = "reset"
    /\ rec_data' = tag_steps(rec_data, step_ids, assigned_resources)
    /\ build_phase' = "steps"
    /\ build_i' = 1
    /\ UNCHANGED << pc, cap_list, semantic_hierarchy, step_ids, valid_mapping, step_vars, solver,
                    assigned_resources, invalid_mapping, last_res, last_model, build_invalid >>
    /\ UNCHANGED << ancVars, reqVars, modeVars, capsVars, guiVars >>

\* lines 254-310: one iteration of the second loop; a ValueError of parse_req
\* leaves build_constraints
BuildStep ==
    /\ pc = "building" /\ build_phase = "steps" /\ build_i <= Len(rec_data)
    /\ \E b \in { build_steps(SubSeq(rec_data, 1, build_i), cap_list, build_i,
                      [valid_mapping |-> valid_mapping, invalid_mapping |-> build_invalid,
                       step_vars |-> step_vars, constraints |-> solver.constraints,
                       raised |-> FALSE]) } :
           /\ valid_mapping' = b.valid_mapping
           /\ step_vars' = b.step_vars
           /\ solver' = [solver EXCEPT !.constraints = b.constraints]
           /\ build_invalid' = IF b.raised THEN EmptyDict ELSE b.invalid_mapping
           /\ build_phase' = IF b.raised THEN "idle" ELSE "steps"
           /\ build_i' = IF b.raised THEN 0 ELSE build_i + 1
           /\ pc' = IF b.raised THEN "failed" ELSE "building"
    /\ UNCHANGED << cap_list, semantic_hierarchy, rec_data, step_ids, assigned_resources,
                    invalid_mapping, last_res, last_model >>
    /\ UNCHANGED << ancVars, reqVars, modeVars, capsVars, guiVars >>

\* line 254 exhausted, line 313 starts the third loop
BuildStepsDone ==
    /\ pc = "building" /\ build_phase = "steps" /\ build_i > Len(rec_data)
    /\ build_phase' = "transport"
    /\ build_i' = 1
    /\ UNCHANGED << engineVars, build_invalid >>
    /\ UNCHANGED << ancVars, reqVars, modeVars, capsVars, guiVars >>

\* lines 313-326: one iteration of the third loop
BuildTransport ==
    /\ pc = "building" /\ build_phase = "transport" /\ build_i <= Len(rec_data)
    /\ solver' = [solver EXCEPT !.constraints =
                     @ \o transport_constraints(SubSeq(rec_data, 1, build_i), step_ids,
                                                valid_mapping, build_i)]
    /\ build_i' = build_i + 1
    /\ UNCHANGED << pc, cap_list, semantic_hierarchy, rec_data, step_ids, valid_mapping, step_vars,
                    assigned_resources, invalid_mapping, last_res, last_model,
                    build_phase, build_invalid >>
    /\ UNCHANGED << ancVars, reqVars, modeVars, capsVars, guiVars >>

\* line 313 exhausted
BuildTransportDone ==
    /\ pc = "building" /\ build_phase = "transport" /\ build_i > Len(rec_data)
    /\ build_phase' = "objective"
    /\ build_i' = 0
    /\ UNCHANGED << engineVars, build_invalid >>
    /\ UNCHANGED << ancVars, reqVars, modeVars, capsVars, guiVars >>

\* lines 329-331
BuildObjective ==
    /\ pc = "building" /\ build_phase = "objective"
    /\ solver' = [solver EXCEPT !.objective =
                     IF step_vars # {} THEN Maximize(step_vars) ELSE NoObjective]
    /\ build_phase' = "return"
    /\ UNCHANGED << pc, cap_list, semantic_hierarchy, rec_data, step_ids, valid_mapping, step_vars,
                    assigned_resources, invalid_mapping, last_res, last_model,
                    build_i, build_invalid >>
    /\ UNCHANGED << ancVars, reqVars, modeVars, capsVars, guiVars >>

\* line 333, and the caller's binding of the result
BuildReturn ==
    /\ pc = "building" /\ build_phase = "return"
    /\ invalid_mapping' = build_invalid
    /\ build_invalid' = EmptyDict
    /\ build_phase' = "idle"
    /\ build_i' = 0
    /\ pc' = "built"
    /\ UNCHANGED << cap_list, semantic_hierarchy, rec_data, step_ids, valid_mapping, step_vars,
                    solver, assigned_resources, last_res, last_model >>
    /\ UNCHANGED << ancVars, reqVars, modeVars, capsVars, guiVars >>

\* the runs explored: files are loaded again for as long as no assignment has
\* been recorded
BuildLoad(cap_file, recipe) ==
    /\ assigned_resources = EmptyDict
    /\ LoadData(cap_file, recipe)

BuildNext ==
    \/ \E cap_file \in CatalogFiles, recipe \in RecipePool : BuildLoad(cap_file, recipe)
    \/ BuildBegin
    \/ BuildTag
    \/ BuildStep
    \/ BuildStepsDone
    \/ BuildTransport
    \/ BuildTransportDone
    \/ BuildObjective
    \/ BuildReturn
    \/ SolveUnsat
    \/ (pc = "built" /\ \E m \in OptimalModels(solver) : SolveSat(m))

SpecBuild == Init /\ [][BuildNext]_vars

\* a constraint added by one of the three transport-mode handlers
IsContinuity(c) == c.kind \in { "Implies", "Not" }
HasContinuity == \E k \in DOMAIN solver.constraints : IsContinuity(solver.constraints[k])
\* every selection variable of every step of the recipe exists
AllVariablesExist ==
    /\ \A k \in DOMAIN step_ids : step_ids[k] \in DOMAIN valid_mapping
    /\ step_vars = UNION { { << step_ids[k], valid_mapping[step_ids[k]][j] >> :
                                  j \in DOMAIN valid_mapping[step_ids[k]] } :
                              k \in DOMAIN step_ids }
\* the order of the positions of build_constraints
PhaseAfter(ph) ==
    CASE ph = "idle"      -> { "reset" }
      [] ph = "reset"     -> { "steps" }
      [] ph = "steps"     -> { "transport", "idle" }
      [] ph = "transport" -> { "objective" }
      [] ph = "objective" -> { "return" }
      [] ph = "return"    -> { "idle" }

\* C26: build_constraints goes Empty -> VariablesCreated -> ConstraintsAdded ->
\* ObjectiveSet -> Ready in that order: it starts from an empty solver and an
\* empty variable map, every selection variable of every step exists before
\* any transport-continuity constraint is added, and the objective is set only
\* after all constraints have been added; what it returns with is what the
\* whole call computes.
C26_PhaseOrder ==
    /\ [](build_phase = "reset" =>
            /\ solver = [constraints |-> <<>>, objective |-> NoObjective]
            /\ step_vars = {} /\ valid_mapping = EmptyDict)
    /\ []((build_phase # "idle" /\ HasContinuity) =>
            /\ build_phase \in { "transport", "objective", "return" }
            /\ AllVariablesExist)
    /\ []((build_phase # "idle" /\ solver.objective.set) =>
            /\ build_phase = "return"
            /\ solver = build_constraints(rec_data, step_ids, cap_list,
                                          assigned_resources).solver)
    /\ []((pc = "built") =>
            /\ build_phase = "idle"
            /\ solver = build_constraints(rec_data, step_ids, cap_list,
                                          assigned_resources).solver
            /\ invalid_mapping = build_constraints(rec_data, step_ids, cap_list,
                                                   assigned_resources).invalid_mapping)
    /\ [][build_phase' # build_phase => build_phase' \in PhaseAfter(build_phase)]_vars

\* a second build of a three-step recipe, started on the solver of an earlier
\* run, is about to return with continuity constraints and an objective
C26_Witness ==
    /\ build_phase = "return" /\ last_res = "unsat"
    /\ Len(step_ids) = 3
    /\ HasContinuity
    /\ solver.objective.set
    /\ solver.objective.vars = step_vars


(***************************************************************************)
(* The objective on the satisfying assignments (specification Spec)        *)
(***************************************************************************)
\* C27: in every satisfying assignment of a model built by build_constraints
\* the number of true selection variables equals the number of recipe steps,
\* so the objective has one value on all satisfying assignments and every
\* satisfying assignment is optimal.
C27_ObjectiveConstant ==
    pc = "built" =>
        /\ \A m \in Models(solver) : Cardinality(m \cap step_vars) = Len(step_ids)
        /\ \A m \in Models(solver) :
               Cardinality(m \cap solver.objective.vars) = Len(step_ids)
        /\ OptimalModels(solver) = Models(solver)

\* a three-step model with an objective and more than one satisfying assignment
C27_Witness ==
    /\ pc = "built"
    /\ Len(step_ids) = 3
    /\ solver.objective.set
    /\ Cardinality(Models(solver)) >= 2


(***************************************************************************)
(* The mode parameter in the coverage check (specification SpecFlow)       *)
(***************************************************************************)
\* the step at position s declares its transport mode with a parameter "mode"
CarriesMode(s) ==
    \E k \in DOMAIN rec_data[s].Parameters : rec_data[s].Parameters[k].Key = "mode"
LacksModeKey(cap) == "mode" \notin DOMAIN cap.props
MissingModeReason(reasons) ==
    \E k \in DOMAIN reasons : reasons[k].kind = "missing" /\ reasons[k].key = "mode"

\* C28 as stated: for a step that carries a mode parameter every capability
\* whose range map lacks the key "mode" is invalid with a missing-parameter
\* reason.
C28_AsWritten ==
    pc = "built" =>
        \A s \in DOMAIN rec_data : CarriesMode(s) =>
            \A j \in DOMAIN cap_list : LacksModeKey(cap_list[j]) =>
                /\ cap_list[j].id \in DOMAIN invalid_mapping[step_ids[s]]
                /\ MissingModeReason(invalid_mapping[step_ids[s]][cap_list[j].id])

\* C28: the coverage check treats the key "mode" as a required capability
\* parameter: for a step that carries a mode parameter only capabilities whose
\* range map contains "mode" are valid; a capability without it is invalid,
\* with a missing-parameter reason naming "mode" when its type chain matches
\* the step and with the single type-mismatch reason of the earlier type check
\* when it does not.
C28_ModeKeyRequired ==
    pc = "built" =>
        \A s \in DOMAIN rec_data : CarriesMode(s) =>
            \A j \in DOMAIN cap_list :
                LET cap     == cap_list[j]
                    invalid == invalid_mapping[step_ids[s]]
                IN  /\ cap.id \in Range(valid_mapping[step_ids[s]]) => ~LacksModeKey(cap)
                    /\ LacksModeKey(cap) =>
                          /\ cap.id \in DOMAIN invalid
                          /\ TypeCompatible(rec_data[s], cap) => MissingModeReason(invalid[cap.id])
                          /\ ~TypeCompatible(rec_data[s], cap) =>
                                /\ Len(invalid[cap.id]) = 1
                                /\ invalid[cap.id][1].kind = "type_mismatch"

\* a built model whose mode-carrying step rejects one capability of its own
\* type for the missing key and one capability of another type for its type
C28_Witness ==
    /\ pc = "built"
    /\ \E s \in DOMAIN rec_data :
          /\ CarriesMode(s)
          /\ \E i, j \in DOMAIN cap_list :
                /\ TypeCompatible(rec_data[s], cap_list[i])
                /\ MissingModeReason(invalid_mapping[step_ids[s]][cap_list[i].id])
                /\ ~TypeCompatible(rec_data[s], cap_list[j])
                /\ invalid_mapping[step_ids[s]][cap_list[j].id][1].kind = "type_mismatch"


(***************************************************************************)
(* The capability matcher (src/precise_capability_matcher.py).  Strings    *)
(* are sequences of characters.                                            *)
(***************************************************************************)
UpperChars == << "A", "B", "C", "D", "E", "F", "G", "H", "I", "J", "K", "L", "M",
                 "N", "O", "P", "Q", "R", "S", "T", "U", "V", "W", "X", "Y", "Z" >>
LowerChars == << "a", "b", "c", "d", "e", "f", "g", "h", "i", "j", "k", "l", "m",
                 "n", "o", "p", "q", "r", "s", "t", "u", "v", "w", "x", "y", "z" >>
\* str.lower
LowerMap == [c \in Range(UpperChars) |->
                LowerChars[CHOOSE i \in DOMAIN UpperChars : UpperChars[i] = c]]
LowerChar(c) == IF c \in DOMAIN LowerMap THEN LowerMap[c] ELSE c
StrLower(s) == [i \in DOMAIN s |-> LowerChar(s[i])]
\* a in b
Contains(a, b) == \E i \in 0..(Len(b) - Len(a)) : SubSeq(b, i + 1, i + Len(a)) = a
\* sep.join(parts)
RECURSIVE Join(_, _)
Join(sep, parts) ==
    IF parts = <<>> THEN <<>>
    ELSE IF Len(parts) = 1 THEN parts[1]
    ELSE parts[1] \o sep \o Join(sep, Tail(parts))

\* SYNONYMS (lines 13-24), in insertion order
SYNONYMS ==
    <<        [primary |-> << "r", "e", "v", "o", "l", "u", "t", "i", "o", "n", "s", "p", "e", "r", "m", "i", "n", "u", "t", "e" >>,
        synonyms |-> << << "r", "e", "v", "o", "l", "u", "t", "i", "o", "n", "s", "p", "e", "r", "m", "i", "n", "u", "t", "e" >>,
                      << "r", "p", "m" >>,
                      << "r", "o", "t", "a", "t", "i", "o", "n", "a", "l", "v", "e", "l", "o", "c", "i", "t", "y" >>,
                      << "r", "o", "t", "a", "t", "i", "o", "n" >> >>],
       [primary |-> << "s", "e", "t", "t", "e", "m", "p", "e", "r", "a", "t", "u", "r", "e" >>,
        synonyms |-> << << "h", "e", "a", "t", "i", "n", "g", "t", "e", "m", "p", "e", "r", "a", "t", "u", "r", "e", "t", "o", "r", "e", "a", "c", "h", "o", "f", "t", "h", "i", "s", "p", "r", "o", "c", "e", "s", "s", "s", "t", "e", "p" >>,
                      << "t", "e", "m", "p", "e", "r", "a", "t", "u", "r", "e" >>,
                      << "t", "e", "m", "p" >> >>],
       [primary |-> << "s", "t", "i", "r", "r", "i", "n", "g", "t", "i", "m", "e" >>,
        synonyms |-> << << "d", "u", "r", "a", "t", "i", "o", "n", "o", "f", "t", "h", "e", "p", "r", "o", "c", "e", "s", "s", "s", "t", "e", "p", "m", "i", "x", "i", "n", "g" >>,
                      << "m", "i", "x", "i", "n", "g", "d", "u", "r", "a", "t", "i", "o", "n" >>,
                      << "m", "i", "x", "t", "i", "m", "e" >>,
                      << "s", "t", "i", "r", "t", "i", "m", "e" >> >>],
       [primary |-> << "h", "o", "l", "d", "i", "n", "g", "t", "i", "m", "e" >>,
        synonyms |-> << << "m", "a", "x", "d", "u", "r", "a", "t", "i", "o", "n", "o", "f", "t", "h", "e", "p", "r", "o", "c", "e", "s", "s", "s", "t", "e", "p", "h", "e", "a", "t", "i", "n", "g" >>,
                      << "h", "e", "a", "t", "i", "n", "g", "d", "u", "r", "a", "t", "i", "o", "n" >>,
                      << "h", "e", "a", "t", "t", "i", "m", "e" >>,
                      << "h", "e", "a", "t", "d", "u", "r", "a", "t", "i", "o", "n" >> >>],
       [primary |-> << "v", "o", "l", "u", "m", "e" >>,
        synonyms |-> << << "a", "m", "o", "u", "n", "t", "o", "f", "d", "o", "s", "i", "n", "g" >>,
                      << "l", "i", "t", "r", "e" >>,
                      << "l", "i", "t", "e", "r" >>,
                      << "a", "m", "o", "u", "n", "t" >>,
                      << "l", "i", "q", "u", "i", "d", "v", "o", "l", "u", "m", "e" >>,
                      << "d", "o", "s", "i", "n", "g", "a", "m", "o", "u", "n", "t" >> >>],
       [primary |-> << "c", "y", "c", "l", "e", "T", "i", "m", "e" >>,
        synonyms |-> << << "c", "y", "c", "l", "e" >>,
                      << "f", "r", "e", "q", "u", "e", "n", "c", "y" >> >>],
       [primary |-> << "d", "u", "t", "y", "C", "y", "c", "l", "e" >>,
        synonyms |-> << << "d", "u", "t", "y" >>,
                      << "p", "u", "l", "s", "e", "d", "u", "t", "y" >> >>],
       [primary |-> << "h", "e", "a", "t", "P", "o", "w", "e", "r" >>,
        synonyms |-> << << "p", "o", "w", "e", "r" >>,
                      << "h", "e", "a", "t", "p", "o", "w", "e", "r" >>,
                      << "p", "o", "w", "e", "r", "h", "e", "a", "t" >> >>],
       [primary |-> << "p", "u", "l", "s", "e", "T", "i", "m", "e", "H", "i", "g", "h" >>,
        synonyms |-> << << "p", "u", "l", "s", "e", "h", "i", "g", "h" >>,
                      << "h", "i", "g", "h", "p", "u", "l", "s", "e" >>,
                      << "p", "u", "l", "s", "e", "h", "i" >> >>],
       [primary |-> << "p", "u", "l", "s", "e", "T", "i", "m", "e", "L", "o", "w" >>,
        synonyms |-> << << "p", "u", "l", "s", "e", "l", "o", "w" >>,
                      << "l", "o", "w", "p", "u", "l", "s", "e" >>,
                      << "p", "u", "l", "s", "e", "l", "o" >> >>] >>

\* REVERSE_SYNONYMS (lines 27-30) as its items in insertion order; no synonym
\* is listed under two primaries
RECURSIVE ReverseItems(_)
ReverseItems(i) ==
    IF i > Len(SYNONYMS) THEN <<>>
    ELSE [j \in DOMAIN SYNONYMS[i].synonyms |->
             [syn |-> SYNONYMS[i].synonyms[j], primary |-> SYNONYMS[i].primary]]
         \o ReverseItems(i + 1)
REVERSE_SYNONYMS == ReverseItems(1)

\* SYNONYMS.get(key, [])
SynonymsOf(key) ==
    IF \E i \in DOMAIN SYNONYMS : SYNONYMS[i].primary = key
    THEN SYNONYMS[CHOOSE i \in DOMAIN SYNONYMS : SYNONYMS[i].primary = key].synonyms
    ELSE <<>>

\* norm (lines 32-34): lower-case, then drop every character outside [a-z0-9]
NormChars == Range(LowerChars) \cup Digits
norm(txt) == SelectSeq(StrLower(txt), LAMBDA c : c \in NormChars)
\* norm(syn) of every item of REVERSE_SYNONYMS (line 88)
NormedSynonyms == [i \in DOMAIN REVERSE_SYNONYMS |-> norm(REVERSE_SYNONYMS[i].syn)]

\* Python None where the code expects a string
NoneStr == << "None" >>

\* OPER_RE (line 11) matched at the start of s:
\* ^(>=|<=|>|<|=)?\s*([0-9]+(?:\.[0-9]+)?) ; [ok, op, digits]
OperatorsTried == << << ">", "=" >>, << "<", "=" >>, << ">" >>, << "<" >>, << "=" >> >>
RECURSIVE LeadingDigits(_)
LeadingDigits(s) ==
    IF s # <<>> /\ Head(s) \in Digits THEN << Head(s) >> \o LeadingDigits(Tail(s)) ELSE <<>>
OperMatch(s) ==
    LET hits  == { i \in DOMAIN OperatorsTried : StartsWith(s, OperatorsTried[i]) }
        op    == IF hits = {} THEN <<>>
                 ELSE OperatorsTried[CHOOSE i \in hits : \A j \in hits : i <= j]
        \* what follows an operator is never a digit or a blank that a shorter
        \* alternative could use, so only the first alternative that fits counts
        rest  == LStrip(SubSeq(s, Len(op) + 1, Len(s)))
        whole == LeadingDigits(rest)
        after == SubSeq(rest, Len(whole) + 1, Len(rest))
        frac  == IF after # <<>> /\ Head(after) = "." THEN LeadingDigits(Tail(after)) ELSE <<>>
    IN  [ok     |-> whole # <<>>,
         op     |-> IF op = <<>> THEN << "=" >> ELSE op,
         digits |-> IF frac = <<>> THEN whole ELSE whole \o << "." >> \o frac]

\* parse_value (lines 36-49); the two replace calls of line 39 change no
\* string over the characters used here.  raised: val_str is None
parse_value(val_str) ==
    IF val_str = NoneStr THEN [raised |-> TRUE, op |-> << "=" >>, val |-> None]
    ELSE LET Direct(f) == [raised |-> FALSE, op |-> << "=" >>,
                           val |-> IF f.ok THEN f.v ELSE None]
             Matched(m) ==
                 IF ~m.ok THEN Direct(PyFloat(Strip(val_str)))
                 ELSE [raised |-> FALSE, op |-> m.op, val |-> PyFloat(m.digits).v]
         IN  Matched(OperMatch(Strip(val_str)))

\* to_float_safe (lines 51-60) on JSON numbers and null
to_float_safe(val) == IF val = None THEN None ELSE val

\* satisfies (lines 62-78); an absent bound is -inf / +inf
satisfies(op, target, vmin_raw, vmax_raw) ==
    LET vmin    == to_float_safe(vmin_raw)
        vmax    == to_float_safe(vmax_raw)
        AboveEq == vmin = None \/ Le(vmin, target)
        Above   == vmin = None \/ Lt(vmin, target)
        BelowEq == vmax = None \/ Le(target, vmax)
        Below   == vmax = None \/ Lt(target, vmax)
    IN  CASE op = << "=" >>      -> AboveEq /\ BelowEq
          [] op = << ">" >>      -> Above
          [] op = << ">", "=" >> -> AboveEq
          [] op = << "<" >>      -> Below
          [] op = << "<", "=" >> -> BelowEq
          [] OTHER               -> FALSE

\* lines 85-92: the primary key the parameter name maps to
primary_key_of(norm_key) ==
    LET Fits(i) ==
            LET syn == NormedSynonyms[i]
            IN  \/ norm_key = syn
                \/ /\ Len(norm_key) > 5 /\ Len(syn) > 5
                   /\ (Contains(norm_key, syn) \/ Contains(syn, norm_key))
        hits == { i \in DOMAIN REVERSE_SYNONYMS : Fits(i) }
    IN  IF hits = {} THEN norm_key
        ELSE REVERSE_SYNONYMS[CHOOSE i \in hits : \A j \in hits : i <= j].primary

\* find_property (lines 80-125): the first property whose normalised name is
\* the normalised key, a candidate, or a substantial part of one
find_property(param_key, properties) ==
    LET norm_key    == norm(param_key)
        primary_key == primary_key_of(norm_key)
        candidates  == << primary_key >> \o SynonymsOf(primary_key)
        Accepts(pr) ==
            LET pname == norm(pr.property_name)
            IN  \/ pname = norm_key
                \/ \E c \in DOMAIN candidates :
                      LET k == norm(candidates[c])
                      IN  \/ pname = k
                          \/ /\ Len(k) > 5 /\ Len(pname) > 5
                             /\ \/ (Contains(k, pname) /\ 10 * Len(k) >= 7 * Len(pname))
                                \/ (Contains(pname, k) /\ 10 * Len(pname) >= 7 * Len(k))
        hits == { i \in DOMAIN properties : Accepts(properties[i]) }
    IN  IF hits = {} THEN [found |-> FALSE, pr |-> <<>>]
        ELSE [found |-> TRUE, pr |-> properties[CHOOSE i \in hits : \A j \in hits : i <= j]]

\* s.split('#')[-1] on characters
AfterLastHash(s) == SplitLast(s, "#")

\* semantic_ok (lines 127-154); the generalisations are read once per
\* capability of the entry, so not at all for an entry without capabilities
semantic_ok(concept, entry) ==
    LET step == StrLower(concept)
    IN  \E i \in DOMAIN entry.capability :
            LET cap_id   == StrLower(entry.capability[i].capability_ID)
                cap_name == StrLower(entry.capability[i].capability_name)
            IN  \/ step = AfterLastHash(cap_id)
                \/ step = cap_name
                \/ (Len(step) > 4 /\ (Contains(step, cap_id) \/ Contains(step, cap_name)))
                \/ \E g \in DOMAIN entry.generalized_by :
                       step = StrLower(entry.generalized_by[g])

(***************************************************************************)
(* Matcher.run (src/precise_capability_matcher.py:163-284)                 *)
(***************************************************************************)
Detail(kind, res, arg) == [kind |-> kind, res |-> res, arg |-> arg]

\* str of a JSON integer or None inside an f-string
NumStr(v) == IF v = None THEN << "N", "o", "n", "e" >> ELSE Numeral(v.m)

\* lines 178-187: param_map as its items in insertion order (a repeated key
\* keeps its place and takes the new value) and the display strings
RECURSIVE extract_params(_, _, _, _)
extract_params(parameters, i, param_map, param_strs) ==
    IF i > Len(parameters)
    THEN [raised |-> FALSE, param_map |-> param_map,
          param_disp |-> Join(<< ";", " " >>, param_strs)]
    ELSE LET p    == parameters[i]
             key  == norm(p.Description)
             unit == SplitLast(p.UnitOfMeasure, "/")
             str  == p.Description \o << ":" >> \o p.ValueString \o << " " >> \o unit
             Stored(pv) ==
                 LET item == [key |-> key, op |-> pv.op, val |-> pv.val, desc |-> p.Description]
                     at   == { j \in DOMAIN param_map : param_map[j].key = key }
                 IN  IF pv.val = None THEN param_map
                     ELSE IF at = {} THEN Append(param_map, item)
                     ELSE [j \in DOMAIN param_map |-> IF j \in at THEN item ELSE param_map[j]]
             Parsed1(pv) ==
                 IF pv.raised THEN [raised |-> TRUE, param_map |-> param_map, param_disp |-> <<>>]
                 ELSE extract_params(parameters, i + 1, Stored(pv), Append(param_strs, str))
         IN  Parsed1(parse_value(p.ValueString))

\* lines 210-230: the parameters of the step against one entry, stopping at
\* the first that fails; [ok, details]
RECURSIVE check_params(_, _, _, _)
check_params(param_map, props, i, details) ==
    IF i > Len(param_map) THEN [ok |-> TRUE, details |-> details]
    ELSE LET pm == param_map[i]
             Ranged(pr) ==
                 LET vmin == PyOr(pr.valueMin, pr.value0)
                     vmax == PyOr(pr.valueMax, pr.value1)
                 IN  IF ~satisfies(pm.op, pm.val, vmin, vmax)
                     THEN [ok |-> FALSE,
                           details |-> Append(details,
                                          Detail("not_satisfied", <<>>, pr.property_name))]
                     ELSE check_params(param_map, props, i + 1,
                              Append(details, Detail("satisfied", <<>>, pr.property_name)))
             Found(fp) ==
                 IF ~fp.found
                 THEN [ok |-> FALSE,
                       details |-> Append(details, Detail("no_property", <<>>, pm.desc))]
                 ELSE Ranged(fp.pr)
         IN  Found(find_property(pm.desc, props))

caps_str_of(e) ==
    Join(<< ",", " " >>, [i \in DOMAIN e.capability |-> e.capability[i].capability_name])
props_str_of(e) ==
    Join(<< ",", " " >>,
         [i \in DOMAIN e.properties |->
             e.properties[i].property_name \o << ":", " " >>
             \o NumStr(PyOr(e.properties[i].valueMin, e.properties[i].value0))
             \o << "-" >>
             \o NumStr(PyOr(e.properties[i].valueMax, e.properties[i].value1))])

\* lines 197-250: the entries of one resource; [matches, details]
RECURSIVE match_entries(_, _, _, _, _)
match_entries(concept, param_map, res, entries, acc) ==
    IF entries = <<>> THEN acc
    ELSE LET e == Head(entries)
             Checked(c) ==
                 match_entries(concept, param_map, res, Tail(entries),
                     [matches |-> IF c.ok THEN Append(acc.matches, e) ELSE acc.matches,
                      details |-> acc.details
                                  \o << Detail(IF c.ok THEN "found" ELSE "failed",
                                               res, caps_str_of(e)) >>
                                  \o c.details
                                  \o << Detail(IF c.ok THEN "complete" ELSE "match_failed",
                                               <<>>, caps_str_of(e)) >>])
         IN  IF ~semantic_ok(concept, e)
             THEN match_entries(concept, param_map, res, Tail(entries),
                      [acc EXCEPT !.details = Append(@, Detail("no_semantic", res, concept))])
             ELSE Checked(check_params(param_map, e.properties, 1, <<>>))

\* one 'No' row for every entry that fails and none for a resource without
\* a match
result_rows_mut_perentry(sid, param_disp, res, entries, matches) ==
    [i \in DOMAIN matches |->
        << sid, param_disp, res, "Yes", caps_str_of(matches[i]), props_str_of(matches[i]),
           Join(<< ",", " " >>, matches[i].realized_by) >>]
    \o [i \in 1..(Len(entries) - Len(matches)) |-> << sid, param_disp, res, "No", <<>>, <<>>, <<>> >>]

\* lines 253-274: the rows of one (step, resource) pair
result_rows(sid, param_disp, res, entries, matches) ==
    IF Len(matches) > 0
    THEN [i \in DOMAIN matches |->
            << sid, param_disp, res, "Yes", caps_str_of(matches[i]), props_str_of(matches[i]),
               Join(<< ",", " " >>, matches[i].realized_by) >>]
    ELSE << << sid, param_disp, res, "No", <<>>, <<>>, <<>> >> >>

\* lines 192-282: the resources of the catalogue for one step; m is
\* [rows, debug_info]
RECURSIVE match_resources(_, _, _, _, _, _)
match_resources(sid, concept, ps, items, i, m) ==
    IF i > Len(items) THEN m
    ELSE LET res == items[i].res
             Matched(r) ==
                 match_resources(sid, concept, ps, items, i + 1,
                     [rows       |-> m.rows \o result_rows(sid, ps.param_disp, res,
                                                           items[i].entries, r.matches),
                      debug_info |-> Append(m.debug_info,
                                        [step_id |-> sid, resource |-> res,
                                         available |-> Len(r.matches) > 0,
                                         details |-> r.details])])
         IN  Matched(match_entries(concept, ps.param_map, res, items[i].entries,
                                   [matches |-> <<>>, details |-> <<>>]))

\* lines 166-173 for a step whose semantic reference is a string
sid_of(step) ==
    IF step.ID # <<>> THEN step.ID
    ELSE IF step.idShort # <<>> THEN step.idShort ELSE << "-", "-" >>
concept_of(step) ==
    AfterLastHash(IF step.SemanticDescription # <<>> THEN step.SemanticDescription
                  ELSE step.semanticId)

\* Matcher.run from step i on; [rows, debug_info, raised]
RECURSIVE matcher_run(_, _, _, _)
matcher_run(steps, items, i, m) ==
    IF i > Len(steps) THEN [rows |-> m.rows, debug_info |-> m.debug_info, raised |-> FALSE]
    ELSE LET step == steps[i]
             Extracted(ps) ==
                 IF ps.raised
                 THEN [rows |-> m.rows, debug_info |-> m.debug_info, raised |-> TRUE]
                 ELSE matcher_run(steps, items, i + 1,
                          match_resources(sid_of(step), concept_of(step), ps, items, 1, m))
         IN  Extracted(extract_params(step.Parameters, 1, <<>>, <<>>))

(***************************************************************************)
(* Inputs of the matcher: recipe and capability documents                  *)
(***************************************************************************)
MaxMatchSteps == 2
MaxEntries == 2
MaxRuns == 2

MParam(desc, vs, unit) == [Description |-> desc, ValueString |-> vs, UnitOfMeasure |-> unit]
MStep(sid, sem, params) ==
    [ID |-> sid, idShort |-> <<>>, SemanticDescription |-> sem, semanticId |-> <<>>,
     Parameters |-> params]
MProp(name, lo, hi) ==
    [property_name |-> name, valueMin |-> lo, valueMax |-> hi, value0 |-> None, value1 |-> None]
MEntry(cid, name, gen, props, by) ==
    [capability |-> << [capability_ID |-> cid, capability_name |-> name] >>,
     generalized_by |-> gen, properties |-> props, realized_by |-> by]

MatchStepTemplates ==
    { [sem |-> << "p", "#", "M", "i", "x", "i", "n", "g" >>,
       params |-> << MParam(<< "r", "p", "m" >>, << ">", "=", "5" >>, << "u", "/", "r", "p", "m" >>) >>],
      [sem |-> << "p", "#", "M", "i", "x", "i", "n", "g" >>,
       params |-> << MParam(<< "r", "p", "m" >>, << "2" >>, <<>>), MParam(<< "c", "o", "l", "o", "r" >>, << "x" >>, <<>>) >>],
      [sem |-> << "T", "e", "m", "p", "e", "r", "i", "n", "g" >>,
       params |-> << MParam(<< "T", "e", "m", "p", "e", "r", "a", "t", "u", "r", "e" >>, << "<", " ", "5", "0" >>, <<>>) >>],
      [sem |-> << "H", "e", "a", "t", "i", "n", "g" >>,
       params |-> << MParam(<< "c", "o", "l", "o", "r" >>, << "3" >>, <<>>) >>],
      [sem |-> << "p", "#", "M", "i", "x", "i", "n", "g" >>,
       params |-> << MParam(<< "r", "p", "m" >>, NoneStr, <<>>) >>] }
MatchRecipes ==
    { [i \in DOMAIN ts |-> MStep(<< "S", IndexToken(i) >>, ts[i].sem, ts[i].params)] :
          ts \in SeqsUpTo(MatchStepTemplates, MaxMatchSteps) }

MatchEntryPool ==
    { MEntry(<< "c", "#", "M", "i", "x", "i", "n", "g" >>, << "M", "i", "x", "i", "n", "g" >>, <<>>, << MProp(<< "r", "p", "m" >>, Num(0), Num(9)) >>, << << "M", "1" >> >>),
      MEntry(<< "c", "#", "M", "i", "x", "i", "n", "g" >>, << "M", "i", "x", "i", "n", "g" >>, <<>>, << MProp(<< "R", "o", "t", "a", "t", "i", "o", "n" >>, Num(0), Num(1)) >>, << << "M", "2" >> >>),
      MEntry(<< "c", "#", "H", "e", "a", "t", "i", "n", "g" >>, << "H", "e", "a", "t", "i", "n", "g" >>, << << "T", "e", "m", "p", "e", "r", "i", "n", "g" >> >>,
             << MProp(<< "t", "e", "m", "p" >>, Num(20), Num(90)) >>, <<>>) }
MatchSecondResource ==
    { <<>>,
      << MEntry(<< "c", "#", "H", "e", "a", "t", "i", "n", "g" >>, << "H", "e", "a", "t", "i", "n", "g" >>, << << "T", "e", "m", "p", "e", "r", "i", "n", "g" >> >>,
                << MProp(<< "t", "e", "m", "p" >>, Num(20), Num(90)) >>, <<>>) >>,
      << MEntry(<< "c", "#", "M", "i", "x", "i", "n", "g" >>, << "M", "i", "x", "i", "n", "g" >>, <<>>, << MProp(<< "r", "p", "m" >>, Num(0), Num(9)) >>, << << "M", "1" >> >>) >> }
MatchCatalogs ==
    { << [res |-> << "R", "1" >>, entries |-> es], [res |-> << "R", "2" >>, entries |-> e2] >> :
          es \in SeqsUpTo(MatchEntryPool, MaxEntries), e2 \in MatchSecondResource }

(***************************************************************************)
(* A Matcher object run on its documents: specification SpecMatch          *)
(***************************************************************************)
MatchInit ==
    /\ EngineInit /\ AncIdle /\ ReqIdle /\ ModeIdle /\ CapsIdle /\ BuildIdle
    /\ \E steps \in MatchRecipes, its \in MatchCatalogs :
          matcher = Matcher(RecipeDoc(steps), CapsDoc(its))
    /\ matcher_pc = "new"
    /\ gui_recipe = NoDoc /\ gui_caps = NoDoc /\ gui_rows = <<>>
    /\ btn_match = "disabled" /\ btn_export = "disabled" /\ btn_debug = "disabled"
    /\ status_var = "Ready" /\ gui_last = "none"

\* the number of (step, resource) pairs of the object's documents
PairsOf(m) == Len(m.recipe.ProcessElements) * Len(m.caps.items)

\* Matcher.run (lines 163-284); it may be called again on the same object
MatcherRun ==
    /\ matcher_pc \in { "new", "returned" }
    /\ Len(matcher.debug_info) < MaxRuns * PairsOf(matcher)
    /\ \E r \in { matcher_run(matcher.recipe.ProcessElements, matcher.caps.items, 1,
                              [rows |-> matcher.rows, debug_info |-> matcher.debug_info]) } :
           /\ matcher' = [matcher EXCEPT !.rows = r.rows, !.debug_info = r.debug_info]
           /\ matcher_pc' = IF r.raised THEN "raised" ELSE "returned"
    /\ UNCHANGED << gui_recipe, gui_caps, gui_rows, btn_match, btn_export, btn_debug,
                    status_var, gui_last >>
    /\ UNCHANGED << engineVars, ancVars, reqVars, modeVars, capsVars, bldVars >>

MatchNext == MatcherRun

SpecMatch == MatchInit /\ [][MatchNext]_vars

\* the entries of a resource that match a step: the type fits and every
\* parsed parameter has a property whose range admits it
MatchingEntries(step, entries) ==
    { i \in DOMAIN entries :
        /\ semantic_ok(concept_of(step), entries[i])
        /\ check_params(extract_params(step.Parameters, 1, <<>>, <<>>).param_map,
                        entries[i].properties, 1, <<>>).ok }

\* what one returned call has appended to rows and debug_info: per pair, in
\* recipe order then catalogue order, a block of rows and one record
RunAppended(m, newRows, newDebug) ==
    LET steps == m.recipe.ProcessElements
        its   == m.caps.items
        R     == Len(its)
        N     == Len(steps) * R
        StepAt(n) == steps[((n - 1) \div R) + 1]
        ResAt(n)  == its[((n - 1) % R) + 1]
        \* the number of matching entries of each pair
        RECURSIVE Counts(_)
        Counts(n) ==
            IF n > N THEN <<>>
            ELSE << Cardinality(MatchingEntries(StepAt(n), ResAt(n).entries)) >>
                 \o Counts(n + 1)
        \* ends[n]: the position of the last row of pair n
        RECURSIVE Ends(_, _, _)
        Ends(count, n, last) ==
            IF n > N THEN <<>>
            ELSE << last + (IF count[n] = 0 THEN 1 ELSE count[n]) >>
                 \o Ends(count, n + 1, last + (IF count[n] = 0 THEN 1 ELSE count[n]))
        Framed(count, ends) ==
            /\ Len(newDebug) = N
            /\ Len(newRows) = (IF N = 0 THEN 0 ELSE ends[N])
            /\ \A n \in 1..N :
                  LET first == IF n = 1 THEN 1 ELSE ends[n - 1] + 1
                  IN  /\ \A k \in first..ends[n] :
                            /\ newRows[k][1] = sid_of(StepAt(n))
                            /\ newRows[k][3] = ResAt(n).res
                            /\ newRows[k][4] = IF count[n] = 0 THEN "No" ELSE "Yes"
                      /\ newDebug[n].step_id = sid_of(StepAt(n))
                      /\ newDebug[n].resource = ResAt(n).res
                      /\ newDebug[n].available =
                            (\E k \in first..ends[n] : newRows[k][4] = "Yes")
        Counted(count) == Framed(count, Ends(count, 1, 0))
    IN  Counted(Counts(1))

\* C29: a call of Matcher.run that returns appends, for every (step,
\* resource) pair in recipe order then catalogue order, either exactly one
\* row with Available = 'No' (no entry of the resource matches) or exactly
\* one row with Available = 'Yes' per matching entry and no 'No' row, and
\* exactly one debug_info record per pair whose available flag is true iff
\* the pair got a 'Yes' row.
C29_RowsPerPair ==
    [][ (matcher_pc' = "returned" /\ matcher' # matcher) =>
            RunAppended(matcher,
                        SubSeq(matcher'.rows, Len(matcher.rows) + 1, Len(matcher'.rows)),
                        SubSeq(matcher'.debug_info, Len(matcher.debug_info) + 1,
                               Len(matcher'.debug_info))) ]_vars

\* a second call has returned on two steps and two resources, where one pair
\* got two 'Yes' rows and another pair its single 'No' row
C29_Witness ==
    /\ matcher_pc = "returned"
    /\ Len(matcher.debug_info) = 8
    /\ Len(matcher.rows) > 8
    /\ \E k \in DOMAIN matcher.rows :
          /\ k < Len(matcher.rows)
          /\ matcher.rows[k][4] = "Yes" /\ matcher.rows[k + 1][4] = "Yes"
          /\ matcher.rows[k][1] = matcher.rows[k + 1][1]
          /\ matcher.rows[k][3] = matcher.rows[k + 1][3]
    /\ \E k \in DOMAIN matcher.rows : matcher.rows[k][4] = "No"


(***************************************************************************)
(* The matcher GUI (src/precise_capability_matcher.py:299-404):            *)
(* specification SpecGui                                                   *)
(***************************************************************************)
\* the documents the files chosen in the dialogs hold
GuiRecipeDocs ==
    { EmptyRecipeDoc, RecipeDoc(<<>>) }
    \cup { RecipeDoc(steps) : steps \in { r \in MatchRecipes : Len(r) = 1 } }
GuiCapsDocs ==
    { EmptyCapsDoc }
    \cup { CapsDoc(its) : its \in { c \in MatchCatalogs :
                                       Len(c[1].entries) = 1 /\ Len(c[2].entries) = 1 } }

\* _update_btn (lines 379-383): the states of Match, Export CSV, Debug Report
update_btn(recipe, caps) ==
    [match  |-> IF DocTruthy(recipe) /\ DocTruthy(caps) THEN "normal" ELSE "disabled",
     export |-> "disabled",
     debug  |-> "disabled"]

\* the result of the file dialog and of json.load: "cancel" (no path),
\* "fail" (open or json.load raises), "ok"
LoadOutcomes == { "cancel", "fail", "ok" }

\* load_recipe (lines 353-364)
LoadRecipe(outcome, doc) ==
    /\ gui_recipe' = IF outcome = "ok" THEN doc ELSE gui_recipe
    /\ status_var' = CASE outcome = "ok"     -> "Recipe loaded"
                       [] outcome = "fail"   -> "Loading error"
                       [] outcome = "cancel" -> status_var
    /\ \E b \in { update_btn(gui_recipe', gui_caps) } :
           /\ btn_match' = b.match
           /\ btn_export' = b.export
           /\ btn_debug' = b.debug
    /\ gui_last' = "load_recipe"
    /\ UNCHANGED << matcher, matcher_pc, gui_caps, gui_rows >>
    /\ UNCHANGED << engineVars, ancVars, reqVars, modeVars, capsVars, bldVars >>

\* load_caps (lines 366-377)
LoadCaps(outcome, doc) ==
    /\ gui_caps' = IF outcome = "ok" THEN doc ELSE gui_caps
    /\ status_var' = CASE outcome = "ok"     -> "Capabilities loaded"
                       [] outcome = "fail"   -> "Loading error"
                       [] outcome = "cancel" -> status_var
    /\ \E b \in { update_btn(gui_recipe, gui_caps') } :
           /\ btn_match' = b.match
           /\ btn_export' = b.export
           /\ btn_debug' = b.debug
    /\ gui_last' = "load_caps"
    /\ UNCHANGED << matcher, matcher_pc, gui_recipe, gui_rows >>
    /\ UNCHANGED << engineVars, ancVars, reqVars, modeVars, capsVars, bldVars >>

\* do_match (lines 385-404), the command of the Match button; an exception of
\* Matcher.run leaves self.rows and the buttons as they were
DoMatch ==
    /\ btn_match = "normal"
    /\ \E r \in { matcher_run(gui_recipe.ProcessElements, gui_caps.items, 1,
                              [rows |-> <<>>, debug_info |-> <<>>]) } :
           /\ matcher' = [recipe |-> gui_recipe, caps |-> gui_caps,
                          rows |-> r.rows, debug_info |-> r.debug_info]
           /\ matcher_pc' = IF r.raised THEN "raised" ELSE "returned"
           /\ gui_rows' = IF r.raised THEN gui_rows ELSE r.rows
           /\ btn_export' = IF r.raised THEN btn_export ELSE "normal"
           /\ btn_debug' = IF r.raised THEN btn_debug ELSE "normal"
           /\ status_var' = IF r.raised THEN "Matching error" ELSE "Matching completed"
    /\ gui_last' = "do_match"
    /\ UNCHANGED << gui_recipe, gui_caps, btn_match >>
    /\ UNCHANGED << engineVars, ancVars, reqVars, modeVars, capsVars, bldVars >>

GuiNext ==
    \/ \E outcome \in LoadOutcomes, doc \in GuiRecipeDocs : LoadRecipe(outcome, doc)
    \/ \E outcome \in LoadOutcomes, doc \in GuiCapsDocs : LoadCaps(outcome, doc)
    \/ DoMatch

\* GUI.__init__ (lines 300-306) with the buttons of _build (lines 317-324)
SpecGui == Init /\ [][GuiNext]_vars

\* Match is enabled iff both documents are loaded
C30_MatchIffLoaded ==
    (btn_match = "normal") <=> (gui_recipe.kind # "none" /\ gui_caps.kind # "none")
\* Export CSV and Debug Report are enabled only when the handler that
\* returned last is a do_match that completed
C30_ExportOnlyAfterMatch ==
    (btn_export = "normal" \/ btn_debug = "normal") =>
        (gui_last = "do_match" /\ matcher_pc = "returned"
         /\ status_var = "Matching completed")

\* C30: after any sequence of load_recipe, load_caps and do_match (cancelled
\* and failing loads and a failing match included) the Match button is
\* enabled iff both a recipe and a capability document are loaded, and Export
\* CSV and Debug Report are enabled only if a do_match has completed
\* successfully since the most recent load_recipe or load_caps.
C30_ButtonsFollowLoads == C30_MatchIffLoaded /\ C30_ExportOnlyAfterMatch

====
